---- MODULE Spec2Model ----
(***************************************************************************)
(* Executor construction pipeline of the onert runtime                     *)
(* (runtime/onert/core/src/compiler/ExecutorFactory.cc): partitioning of a *)
(* lowered graph into per-backend partial graphs, IO and migrant tensor    *)
(* wiring, the deallocation plan of the linear executor, kernel generation *)
(* and the run of the Linear / Dataflow / Parallel executors.              *)
(***************************************************************************)
EXTENDS Integers, Sequences, FiniteSets, TLC

\* ------------------------------------------------------------------------
\* Bounds of the model
\* ------------------------------------------------------------------------
NumOperands == 4

NumOps == 3

\* ------------------------------------------------------------------------
\* Program constants
\* ------------------------------------------------------------------------
\* backend::builtin::Config::ID
BUILTIN == "builtin"

\* compiler::BackendManager::get().getAll()
Backends == {"builtin", "cpu", "gpu"}

\* the keys of ExecutorFactory::_map
ExecutorKinds == {"Linear", "Dataflow", "Parallel"}

OperandIdx == 0 .. (NumOperands - 1)

OpIdx == 0 .. (NumOps - 1)

\* an undefined ir::OperandIndex: a value outside the valid indices
UNDEFINED == NumOperands

\* ------------------------------------------------------------------------
\* Index sequences (ir::OperandIndexSequence)
\* ------------------------------------------------------------------------
SeqToSet(s) == {s[i] : i \in DOMAIN s}

Contains(s, x) == \E i \in DOMAIN s : s[i] = x

RECURSIVE RemoveDuplicated(_)
\* seq | ir::Remove::DUPLICATED : the first occurrence of each index is kept
RemoveDuplicated(s) ==
  IF s = <<>> THEN <<>>
  ELSE LET front == RemoveDuplicated(SubSeq(s, 1, Len(s) - 1))
           last  == s[Len(s)]
       IN  IF Contains(front, last) THEN front ELSE Append(front, last)

\* seq | ir::Remove::UNDEFINED
RemoveUndefined(s) == SelectSeq(s, LAMBDA x : x # UNDEFINED)

RECURSIVE IsSubsequence(_, _)
\* s can be had from t by leaving members of t out
IsSubsequence(s, t) ==
  IF s = <<>> THEN TRUE
  ELSE IF t = <<>> THEN FALSE
  ELSE IF Head(s) = Head(t) THEN IsSubsequence(Tail(s), Tail(t))
  ELSE IsSubsequence(s, Tail(t))

NoDuplicates(s) == \A i, j \in DOMAIN s : i # j => s[i] # s[j]

\* the only element of a util::Set (getOnlyElement)
OnlyElement(S) == CHOOSE x \in S : TRUE

\* ------------------------------------------------------------------------
\* Tensors
\* ------------------------------------------------------------------------
NullTensor == [kind |-> "null", owner |-> "none", ind |-> UNDEFINED]

NativeTensor(b, i) == [kind |-> "native", owner |-> b, ind |-> i]

IOTensor(i) == [kind |-> "io", owner |-> BUILTIN, ind |-> i]

\* the native tensors of the cpu and builtin backends are IPortableTensors,
\* those of the gpu backend are not, unless the graph is lowered for a gpu
\* backend with portable tensors
PortableBackends == {"builtin", "cpu"}

EmptyRegistry ==
  [native  |-> [i \in OperandIdx |-> NullTensor],
   migrant |-> [i \in OperandIdx |-> NullTensor],
   io      |-> [i \in OperandIdx |-> NullTensor]]

\* ------------------------------------------------------------------------
\* The state
\* ------------------------------------------------------------------------
VARIABLES
  operands,         \* whole graph: operand index -> descriptor
  operations,       \* whole graph: operation index -> operation
  graph_inputs,     \* whole graph: input index sequence
  graph_outputs,    \* whole graph: output index sequence
  layout,           \* whole graph: lgraph.graph().layout()
  backend_manager,  \* compiler::BackendManager::get().getAll()
  portable_backends,\* the backends whose native tensors are IPortableTensors
  executor,         \* options.executor
  he_profiling_mode,\* options.he_profiling_mode
  trace_filepath,   \* options.trace_filepath
  exec,             \* the class of the executor create() returns
  observers,        \* the observers added to the executor, in addObserver order
  exec_time,        \* the ExecTime table behind the ProfileObserver
  error,            \* how create() has failed, if it has
  pc,               \* position inside ExecutorFactory::create
  whole_op_order,   \* topolSortOperations() of the whole graph
  contexts,         \* backend -> context data (partial graph, externals, op_order)
  regs,             \* backend -> tensor registry
  io_created,       \* the IOTensor objects made so far, by operand index
  order,            \* Linear::linearize
  gen_tensors_done, \* backends whose genTensors has returned
  migrant_done,     \* prepareMigrantTensors has returned
  ordered_contexts, \* orderBackendContext
  dealloc_list_map, \* operation index -> tensors to free after it
  uses_map,         \* the use counters after the scan
  gen_kernels_done, \* backends whose genKernels has returned, in call order
  code_map,         \* operation index -> function sequence
  input_info,       \* executor: operation -> unresolved inputs
  ready,            \* executor: ready queue
  running,          \* executor: operations that have begun and not finished
  trace,            \* executor: the begin and end events of the run, in order
  calls,            \* executor: the functions of the sequences called, in order
  released,         \* executor: operands whose buffer deallocBuffer() has released
  dynamic,          \* executor: operands whose tensor answers is_dynamic() with true
  on_error,         \* executor: the observers that have received onError, in order
  executor_map,     \* the subgraph indices that have an entry in the shared ExecutorMap
  kernel_gen_executor_map, \* what setExecutorMap has given the builtin kernel generator
  enqueued,         \* executor: every operation put in the ready queue, in order
  node,             \* luci partition: the node to clone, its inputs by position
  cloned,           \* luci partition: the clone of the node, its inputs by position
  clonecontext,     \* luci partition: original input node -> its registered clone
  connect_pc        \* luci partition: how far clone_node / clone_connect have come

vars == <<operands, operations, graph_inputs, graph_outputs, layout, backend_manager,
          portable_backends,
          executor, he_profiling_mode, trace_filepath, exec, observers, exec_time, error,
          pc,
          whole_op_order, contexts, regs, io_created, order, gen_tensors_done,
          migrant_done, ordered_contexts, dealloc_list_map, uses_map,
          gen_kernels_done, code_map, input_info, ready, running, trace,
          calls, released, dynamic, on_error, executor_map, kernel_gen_executor_map,
          enqueued, node, cloned, clonecontext, connect_pc>>

\* luci partition: a node, its clone and the clones registered so far
partition_vars == <<node, cloned, clonecontext, connect_pc>>

map_vars == <<executor_map, kernel_gen_executor_map>>

\* what create() is given and never changes
graph_vars == <<operands, operations, graph_inputs, graph_outputs, layout,
               backend_manager,
                portable_backends>>

\* what create() hands back
result_vars == <<exec, error, observers, exec_time>>

exec_vars == <<input_info, ready, running, trace, calls, released, dynamic, on_error,
               enqueued>>

\* ------------------------------------------------------------------------
\* The lowered graph
\* ------------------------------------------------------------------------
Ops == DOMAIN operations

\* op.getInputs() + op.getOutputs()
OpIO(op) == op.inputs \o op.outputs

\* (op.getInputs() + op.getOutputs()) | DUPLICATED | UNDEFINED
OpIOList(op) == RemoveUndefined(RemoveDuplicated(OpIO(op)))

OpInputs(op) == RemoveUndefined(RemoveDuplicated(op.inputs))

OpOutputs(op) == RemoveUndefined(RemoveDuplicated(op.outputs))

\* Operand::getUses(): the operations that read the operand
UsesIn(opset, i) == {o \in opset : Contains(operations[o].inputs, i)}

\* Operand::getDef(): the operations that write the operand
DefsIn(opset, i) == {o \in opset : Contains(operations[o].outputs, i)}

Uses(i) == UsesIn(Ops, i)

Producers(o) == {p \in Ops : \E i \in SeqToSet(OpInputs(operations[o])) :
                               Contains(operations[p].outputs, i)}

\* the index sequence holding the members of S in increasing order
RECURSIVE SetToSeq(_)
SetToSeq(S) ==
  IF S = {} THEN <<>>
  ELSE LET m == CHOOSE x \in S : \A y \in S : y <= x
       IN  Append(SetToSeq(S \ {m}), m)

OrdersOf(S) ==
  {s \in [1 .. Cardinality(S) -> S] : \A x \in S : \E i \in DOMAIN s : s[i] = x}

\* an order of all operations in which every producer precedes its consumers
IsTopological(s) ==
  \A i, j \in DOMAIN s : s[i] \in Producers(s[j]) => i < j

TopologicalOrders == {s \in OrdersOf(Ops) : IsTopological(s)}

\* descriptors of the operands no operation writes: a graph input, an operand
\* that is graph input and output, a constant, a variable
SourceKinds ==
  {[isConstant |-> FALSE, isVariable |-> FALSE, def_factors |-> {BUILTIN}, io |-> "in"],
   [isConstant |-> FALSE, isVariable |-> FALSE, def_factors |-> {BUILTIN}, io |-> "inout"],
   [isConstant |-> FALSE, isVariable |-> TRUE, def_factors |-> {"cpu"}, io |-> "none"]}
  \cup {[isConstant |-> TRUE, isVariable |-> FALSE, def_factors |-> {b}, io |-> "none"]
          : b \in Backends \ {BUILTIN}}

\* a constant lowered to two backends at once: invariant L1 does not hold
TwoFactorKinds ==
  {[isConstant |-> TRUE, isVariable |-> FALSE, def_factors |-> {"cpu", "gpu"},
    io |-> "none"]}

\* an operand no operation reads or writes: unused (no def_factor)
IdleKinds ==
  {[isConstant |-> FALSE, isVariable |-> FALSE, def_factors |-> {}, io |-> "none"]}

\* an operand written by an operation of backend b: a graph output, or an
\* intermediate result if some operation reads it
ProducedKinds(b, read) ==
  {[isConstant |-> FALSE, isVariable |-> FALSE, def_factors |-> {b}, io |-> k]
     : k \in IF read THEN {"none", "out"} ELSE {"out"}}

\* the input lists over the operands below k: one or two of them, the second
\* possibly a repetition of the first or undefined (an optional input)
InputSeqs(k) ==
  {s \in (0 .. (k - 1)) \X ((0 .. (k - 1)) \cup {UNDEFINED}) : s[1] <= s[2]}

\* The graphs: m source operands 0 .. m-1, then n operations, operation j
\* writing operand m + j; the operands above are unused.  The sizes <<n, m>>
\* of the graphs drawn with every choice of backends and descriptors:
GenericSizes == {<<1, 1>>, <<1, 2>>, <<2, 1>>}

\* ir::Layout of a whole graph
Layouts == {"NHWC", "NCHW"}

\* the generic graphs come in NHWC, the join graphs in both layouts
LayoutsFor(n, m) == IF <<n, m>> \in GenericSizes THEN {"NHWC"} ELSE Layouts

\* and the size of the join graphs: NumOps operations on one graph input
GraphSizes == GenericSizes \cup {<<NumOps, 1>>}

\* Every operation but the last has one input.  In a join graph the last
\* operation joins the two results before it, the two operations before it
\* read the graph input or the result just before them, and the operations
\* before these form a chain.
WellFormedInputs(ins, n, m) ==
  /\ \A j \in DOMAIN ins :
       /\ ins[j] \in InputSeqs(m + j)
       /\ j < n - 1 => ins[j][2] = UNDEFINED
  /\ <<n, m>> \notin GenericSizes =>
       /\ \A j \in DOMAIN ins : j < n - 1 => ins[j][1] \in {0, m + j - 1}
       /\ \A j \in DOMAIN ins : (0 < j /\ j < n - 2) => ins[j][1] = m + j - 1
       /\ ins[n - 1] = <<m + n - 3, m + n - 2>>
  /\ \A i \in 0 .. (m - 1) : \E j \in DOMAIN ins : Contains(ins[j], i)

\* the operations of a join graph run on the backends other than builtin
OpBackends(n, m) ==
  IF <<n, m>> \in GenericSizes THEN Backends ELSE Backends \ {BUILTIN}

\* in a join graph the operations before the last two run on the cpu backend
WellFormedBackends(bk, n, m) ==
  <<n, m>> \notin GenericSizes => \A j \in DOMAIN bk : j < n - 2 => bk[j] = "cpu"

KindsFor(ops, n, i) ==
  LET writers == {j \in DOMAIN ops : Contains(ops[j].outputs, i)}
      readers == {j \in DOMAIN ops : Contains(ops[j].inputs, i)}
  IN  IF writers # {}
      THEN LET kinds == ProducedKinds(ops[OnlyElement(writers)].backend, readers # {})
           IN  IF n = NumOps /\ readers # {}
               THEN {k \in kinds : k.io = "none"}   \* join graph: an intermediate
               ELSE kinds
      ELSE IF readers = {} THEN IdleKinds
      ELSE IF n = NumOps THEN {k \in SourceKinds : k.io = "in"}
      ELSE IF n = 1 THEN SourceKinds \cup TwoFactorKinds
      ELSE SourceKinds

\* the graph has an operation or an operand lowered to the builtin backend
UsesBuiltin ==
  \/ \E o \in DOMAIN operations : operations[o].backend = BUILTIN
  \/ \E i \in DOMAIN operands : BUILTIN \in operands[i].def_factors

RECURSIVE KindChoices(_, _, _)
\* the descriptors of the operands 0 .. i-1, as sequences
KindChoices(ops, n, i) ==
  IF i = 0 THEN {<<>>}
  ELSE {Append(s, k) : s \in KindChoices(ops, n, i - 1), k \in KindsFor(ops, n, i - 1)}

\* no ExecTime table has been made
NoExecTime == [made |-> FALSE, backends |-> {}]

\* std::make_shared<exec::ExecTime>(backends): one key per backend handed in
ExecTime(backends) == [made |-> TRUE, backends |-> backends]

\* the keys backend_contexts may still hold when the loop that collects
\* "backends" reads it: std::move(backend_contexts) has already built the
\* executor from it.  A moved-from container is valid but unspecified: the
\* standard libraries leave it empty, the language allows it to be unchanged.
MovedFrom(keys) == {{}, keys}

\* dynamic_cast<backend::IPortableTensor *>(tensor) succeeds
IsPortable(t) == t.kind = "io" \/ (t.kind = "native" /\ t.owner \in portable_backends)

\* The two-backend scenario In(A) -> Conv[gpu](A, W) -> Relu[cpu](C) -> Out(D)
OperandA == 0
OperandW == 1
OperandC == 2
OperandD == 3
OpConv == 0
OpRelu == 1

ScenarioOperations ==
  [o \in {OpConv, OpRelu} |->
     IF o = OpConv
     THEN [backend |-> "gpu", inputs |-> <<OperandA, OperandW>>, outputs |-> <<OperandC>>]
     ELSE [backend |-> "cpu", inputs |-> <<OperandC>>, outputs |-> <<OperandD>>]]

\* A is a graph input, W a constant lowered to backend w, C the result of
\* Conv, D the result of Relu and the graph output
ScenarioOperands(w) ==
  [i \in OperandIdx |->
     [isConstant  |-> i = OperandW,
      isVariable  |-> FALSE,
      def_factors |-> IF i = OperandA THEN {BUILTIN}
                      ELSE IF i = OperandW THEN {w}
                      ELSE IF i = OperandC THEN {"gpu"}
                      ELSE IF i = OperandD THEN {"cpu"}
                      ELSE {}]]

\* the entries the caller has installed in the ExecutorMap it passes to
\* create: the executor of a subgraph built before this one
InstalledExecutors == {1}

\* the lowered graphs and backend managers create() is given
GraphInit ==
  /\ \/ /\ \E sz \in GraphSizes :
             \E ins \in [0 .. (sz[1] - 1) -> InputSeqs(NumOperands - 1)] :
               /\ WellFormedInputs(ins, sz[1], sz[2])
               /\ layout \in LayoutsFor(sz[1], sz[2])
               /\ \E bk \in {f \in [0 .. (sz[1] - 1) -> OpBackends(sz[1], sz[2])] :
                                WellFormedBackends(f, sz[1], sz[2])} :
                 LET ops == [j \in 0 .. (sz[1] - 1) |->
                               [backend |-> bk[j], inputs |-> ins[j],
                                outputs |-> <<sz[2] + j>>]]
                 IN  /\ operations = ops
                     /\ \E kinds \in KindChoices(ops, sz[1], NumOperands) :
                          /\ operands = [i \in OperandIdx |->
                                           [isConstant  |-> kinds[i + 1].isConstant,
                                            isVariable  |-> kinds[i + 1].isVariable,
                                            def_factors |-> kinds[i + 1].def_factors]]
                          /\ graph_inputs =
                               SetToSeq({i \in OperandIdx : kinds[i + 1].io \in {"in", "inout"}})
                          /\ graph_outputs =
                               SetToSeq({i \in OperandIdx : kinds[i + 1].io \in {"out", "inout"}})
        /\ portable_backends = PortableBackends
     \/ /\ operations = ScenarioOperations
        /\ \E w \in Backends : operands = ScenarioOperands(w)
        /\ graph_inputs = <<OperandA>>
        /\ graph_outputs = <<OperandD>>
        /\ layout \in Layouts
        /\ portable_backends \in {PortableBackends, Backends}
  /\ backend_manager \in
       {Backends} \cup (IF UsesBuiltin THEN {} ELSE {Backends \ {BUILTIN}})

\* nothing has been built yet
FactoryStart ==
  /\ executor = "none"
  /\ he_profiling_mode = FALSE
  /\ trace_filepath = ""
  /\ observers = <<>>
  /\ exec_time = NoExecTime
  /\ exec = "none"
  /\ error = "none"
  /\ pc = "start"
  /\ whole_op_order = <<>>
  /\ contexts = [b \in {} |-> 0]
  /\ regs = [b \in {} |-> 0]
  /\ io_created = <<>>
  /\ order = <<>>
  /\ gen_tensors_done = {}
  /\ migrant_done = FALSE
  /\ ordered_contexts = <<>>
  /\ dealloc_list_map = [o \in {} |-> <<>>]
  /\ uses_map = [i \in {} |-> 0]
  /\ gen_kernels_done = <<>>
  /\ code_map = [o \in {} |-> <<>>]
  /\ input_info = [o \in {} |-> 0]
  /\ ready = <<>>
  /\ running = {}
  /\ trace = <<>>
  /\ calls = <<>>
  /\ released = {}
  /\ dynamic = {}
  /\ on_error = <<>>
  /\ enqueued = <<>>
  /\ executor_map = InstalledExecutors
  /\ kernel_gen_executor_map = "none"

\* ------------------------------------------------------------------------
\* luci partition: ConnectNode
\* ------------------------------------------------------------------------
NumInputNodes == 2

MaxIfInputs == 2

\* the nodes that feed the node to clone, and the nodes of the cloned graph
InputNodes == 1 .. NumInputNodes

CloneNodes == 1 .. NumInputNodes

\* an input of a clone that nothing has been connected to
NullNode == 0

NoNode == [kind |-> "none", args |-> <<>>]

\* CircleIf: cond and input_count inputs; CircleTopKV2: input and k;
\* CircleMinimum: x and y
Arities(kind) ==
  IF kind = "CircleIf" THEN 1 .. (1 + MaxIfInputs) ELSE {2}

NodeKinds == {"CircleIf", "CircleTopKV2", "CircleMinimum"}

\* the nodes to clone: every position reads one of the input nodes
Nodes ==
  UNION {UNION {{[kind |-> kind, args |-> args] : args \in [1 .. n -> InputNodes]} :
                  n \in Arities(kind)} : kind \in NodeKinds}

\* prepare_inputs / prepare_inputs_miss: each registered input node has its
\* own clone in the cloned graph
CloneContexts ==
  {f \in UNION {[registered -> CloneNodes] : registered \in SUBSET InputNodes} :
     \A a, b \in DOMAIN f : f[a] = f[b] => a = b}

PartitionIdle ==
  /\ node = NoNode
  /\ cloned = NoNode
  /\ clonecontext = <<>>
  /\ connect_pc = "idle"

Init == GraphInit /\ FactoryStart /\ PartitionIdle

\* ------------------------------------------------------------------------
\* ExecutorFactory::create
\* ------------------------------------------------------------------------
ctor_vars == <<whole_op_order, contexts, regs, io_created, order,
               gen_tensors_done, migrant_done, ordered_contexts,
               dealloc_list_map, uses_map, gen_kernels_done, code_map>>

\* the values options.executor may be given: the keys of _map and another one
ExecutorOptions == ExecutorKinds \cup {"Unknown"}

\* _map[key] in place of _map.at(key): an empty std::function is called
MapAtError_Subscript == "std::bad_function_call"

\* _map.at(key) of a key _map does not hold throws std::out_of_range
MapAtError == "std::out_of_range"

\* _map.at(options.executor)(...)
Create ==
  /\ pc = "start"
  /\ \E k \in ExecutorOptions, profiling \in BOOLEAN :
       /\ executor' = k
       /\ he_profiling_mode' = profiling
       /\ IF k \in ExecutorKinds
          THEN pc' = "createBackendContexts" /\ error' = error
          ELSE pc' = "failed" /\ error' = MapAtError
  /\ UNCHANGED <<partition_vars, graph_vars, map_vars, exec, observers, exec_time, trace_filepath, ctor_vars, exec_vars>>

\* ------------------------------------------------------------------------
\* createBackendContexts
\* ------------------------------------------------------------------------
EmptyContextData ==
  [operands |-> {}, operations |-> {}, external_operands |-> {},
   inputs |-> <<>>, outputs |-> <<>>, op_order |-> <<>>,
   is_linear_executor |-> FALSE, layout |-> "unset"]

\* a partial graph left with the layout the constructor of ir::Graph gives
NewPartialGraph_NoSetLayout(l) == EmptyContextData

\* "Generate partial graphs for each backend": an empty graph with the whole
\* graph's layout
NewPartialGraph(l) == [EmptyContextData EXCEPT !.layout = l]

\* SeparateOperand that also calls external_operands.add(operand_ind)
SeparateOperand_External(data, ind) ==
  LET def_factors == operands[ind].def_factors
  IN  IF def_factors = {} THEN data
      ELSE [data EXCEPT ![OnlyElement(def_factors)].operands = @ \cup {ind},
                        ![OnlyElement(def_factors)].external_operands = @ \cup {ind}]

\* one step of "Separate operands into partial graphs"
SeparateOperand(data, ind) ==
  LET def_factors == operands[ind].def_factors
  IN  IF def_factors = {} THEN data   \* Ignore unused tensor
      ELSE [data EXCEPT ![OnlyElement(def_factors)].operands = @ \cup {ind}]

RECURSIVE SeparateOperands(_, _)
SeparateOperands(data, inds) ==
  IF inds = <<>> THEN data
  ELSE SeparateOperands(SeparateOperand(data, Head(inds)), Tail(inds))

\* AddMissingOperand without external_operands.add(operand_ind)
AddMissingOperand_NotExternal(pg, ind) ==
  IF ind \in pg.operands THEN pg
  ELSE [pg EXCEPT !.operands = @ \cup {ind}]

\* AddMissingOperand that copies no operand
AddMissingOperand_Never(pg, ind) == pg

\* "Add missing operands (externals)": one operand of one operation
AddMissingOperand(pg, ind) ==
  IF ind \in pg.operands THEN pg
  ELSE [pg EXCEPT !.operands = @ \cup {ind},
                  !.external_operands = @ \cup {ind}]

RECURSIVE AddMissingOperands(_, _)
AddMissingOperands(pg, io_list) ==
  IF io_list = <<>> THEN pg
  ELSE AddMissingOperands(AddMissingOperand(pg, Head(io_list)), Tail(io_list))

\* SeparateOperation that adds the clone to the partial graph of every backend
SeparateOperation_Everywhere(data, op_ind) ==
  LET backend == operations[op_ind].backend
      pg      == AddMissingOperands(data[backend], OpIOList(operations[op_ind]))
  IN  [b \in DOMAIN data |->
         [(IF b = backend THEN pg ELSE data[b]) EXCEPT !.operations = @ \cup {op_ind}]]

\* one step of "Separate operations into partial graphs"
SeparateOperation(data, op_ind) ==
  LET backend == operations[op_ind].backend
      pg      == AddMissingOperands(data[backend], OpIOList(operations[op_ind]))
  IN  [data EXCEPT ![backend] = [pg EXCEPT !.operations = @ \cup {op_ind}]]

RECURSIVE SeparateOperations(_, _)
SeparateOperations(data, op_inds) ==
  IF op_inds = <<>> THEN data
  ELSE SeparateOperations(SeparateOperation(data, Head(op_inds)), Tail(op_inds))

\* "Handle graph input/outputs or external tensors"
IsGraphIO(ind) == Contains(graph_inputs, ind) \/ Contains(graph_outputs, ind)

\* FilterOpOrder with std::copy in place of std::copy_if
FilterOpOrder_All(topo, opset) == topo

\* std::copy_if(whole_op_order ..., data.graph->operations().exist(ind))
FilterOpOrder(topo, opset) == SelectSeq(topo, LAMBDA o : o \in opset)

\* FinishContextData without "data.external_operands.add(ind)" for graph IO
FinishContextData_NoIO(d, topo) ==
  [d EXCEPT
     !.inputs = SetToSeq({ind \in d.operands :
                   \/ Contains(graph_inputs, ind)
                   \/ (DefsIn(d.operations, ind) = {} /\ ~operands[ind].isConstant)}),
     !.outputs = SetToSeq({ind \in d.operands :
                   \/ Contains(graph_outputs, ind)
                   \/ UsesIn(d.operations, ind) = {}}),
     !.op_order = FilterOpOrder(topo, d.operations),
     !.is_linear_executor = (executor = "Linear")]

\* FinishContextData without "!operand.isConstant()" in the test for inputs
FinishContextData_ConstantInputs(d, topo) ==
  [d EXCEPT
     !.external_operands = @ \cup {ind \in d.operands : IsGraphIO(ind)},
     !.inputs = SetToSeq({ind \in d.operands :
                   \/ Contains(graph_inputs, ind)
                   \/ DefsIn(d.operations, ind) = {}}),
     !.outputs = SetToSeq({ind \in d.operands :
                   \/ Contains(graph_outputs, ind)
                   \/ UsesIn(d.operations, ind) = {}}),
     !.op_order = FilterOpOrder(topo, d.operations),
     !.is_linear_executor = (executor = "Linear")]

\* "Create contexts": the context data of one backend
FinishContextData(d, topo) ==
  [d EXCEPT
     !.external_operands = @ \cup {ind \in d.operands : IsGraphIO(ind)},
     !.inputs = SetToSeq({ind \in d.operands :
                   \/ Contains(graph_inputs, ind)
                   \/ (DefsIn(d.operations, ind) = {} /\ ~operands[ind].isConstant)}),
     !.outputs = SetToSeq({ind \in d.operands :
                   \/ Contains(graph_outputs, ind)
                   \/ UsesIn(d.operations, ind) = {}}),
     !.op_order = FilterOpOrder(topo, d.operations),
     !.is_linear_executor = (executor = "Linear")]

ContextDataMap(topo) ==
  LET empty   == [b \in backend_manager |-> NewPartialGraph(layout)]
      pass1   == SeparateOperands(empty, SetToSeq(OperandIdx))
      pass2   == SeparateOperations(pass1, SetToSeq(Ops))
  IN  [b \in backend_manager |-> FinishContextData(pass2[b], topo)]

\* getOnlyElement() of a set that holds more than one element does not fail
GetOnlyElementFails_Never(S) == FALSE

\* getOnlyElement() of a set that holds more than one element fails
GetOnlyElementFails(S) == Cardinality(S) > 1

\* the operands at which "Separate operands into partial graphs" fails
L1Violations ==
  {ind \in OperandIdx : GetOnlyElementFails(operands[ind].def_factors)}

\* the failure leaves createBackendContexts before "Create contexts"
CreateBackendContexts ==
  /\ pc = "createBackendContexts"
  /\ IF L1Violations # {}
     THEN /\ error' = "ConfigError"
          /\ pc' = "failed"
          /\ UNCHANGED <<whole_op_order, contexts, regs>>
     ELSE /\ \E topo \in TopologicalOrders :
               /\ whole_op_order' = topo
               /\ contexts' = ContextDataMap(topo)
          /\ regs' = [b \in backend_manager |-> EmptyRegistry]
          /\ pc' = "initializeSubgraphIOTensors"
          /\ error' = error
  /\ UNCHANGED <<partition_vars, graph_vars, map_vars, exec, observers, exec_time, executor, he_profiling_mode, trace_filepath, io_created, order, gen_tensors_done,
                 migrant_done, ordered_contexts, dealloc_list_map, uses_map,
                 gen_kernels_done, code_map, exec_vars>>

\* ------------------------------------------------------------------------
\* Tensor registries
\* ------------------------------------------------------------------------
\* ITensorRegistry::getITensor of one backend's registry
GetITensor(reg, ind) ==
  IF reg.native[ind] # NullTensor THEN reg.native[ind]
  ELSE IF reg.migrant[ind] # NullTensor THEN reg.migrant[ind]
  ELSE reg.io[ind]

\* TensorRegistries::getITensor: the tensor some registry holds for the index
TensorRegsGetITensor(rs, ind) ==
  LET found == {GetITensor(rs[b], ind) : b \in DOMAIN rs} \ {NullTensor}
  IN  IF found = {} THEN NullTensor ELSE CHOOSE t \in found : TRUE

\* ------------------------------------------------------------------------
\* initializeSubgraphIOTensors
\* ------------------------------------------------------------------------
\* ModelIO without ir::Remove::DUPLICATED
ModelIO_NotDeduplicated == RemoveUndefined(graph_inputs \o graph_outputs)

\* ModelIO without getOutputs()
ModelIO_InputsOnly == RemoveUndefined(RemoveDuplicated(graph_inputs))

\* (getInputs() + getOutputs()) | DUPLICATED | UNDEFINED
ModelIO == RemoveUndefined(RemoveDuplicated(graph_inputs \o graph_outputs))

RECURSIVE SetNativeIOTensors(_, _)
\* builtin_tensor_reg->setNativeIOTensor(ind, tensor) for each index
SetNativeIOTensors(reg, indices) ==
  IF indices = <<>> THEN reg
  ELSE SetNativeIOTensors([reg EXCEPT !.io[Head(indices)] = IOTensor(Head(indices))],
                          Tail(indices))

\* builtin_tensor_reg is null: assert(builtin_tensor_reg) aborts where
\* assertions are compiled in; elsewhere the loop dereferences the null
\* registry at its first index, or does nothing if there is no index
NullRegistryOutcomes(indices) ==
  {"assertion failed"} \cup
    (IF indices = <<>> THEN {"none"} ELSE {"null pointer dereferenced"})

InitializeSubgraphIOTensors ==
  /\ pc = "initializeSubgraphIOTensors"
  /\ IF BUILTIN \in DOMAIN contexts
     THEN /\ regs' = [regs EXCEPT ![BUILTIN] = SetNativeIOTensors(@, ModelIO)]
          /\ io_created' = io_created \o ModelIO
          /\ pc' = IF executor = "Linear" THEN "linearize" ELSE "genTensors"
          /\ error' = error
     ELSE /\ \E outcome \in NullRegistryOutcomes(ModelIO) :
               /\ error' = outcome
               /\ pc' = IF outcome # "none" THEN "failed"
                        ELSE IF executor = "Linear" THEN "linearize" ELSE "genTensors"
          /\ UNCHANGED <<regs, io_created>>
  /\ UNCHANGED <<partition_vars, graph_vars, map_vars, exec, observers, exec_time, executor, he_profiling_mode, trace_filepath, whole_op_order, contexts, order,
                 gen_tensors_done, migrant_done, ordered_contexts,
                 dealloc_list_map, uses_map, gen_kernels_done, code_map, exec_vars>>

\* ------------------------------------------------------------------------
\* Linear::linearize
\* ------------------------------------------------------------------------
\* Linear::linearize returns topolSortOperations() of the same graph
Linearize ==
  /\ pc = "linearize"
  /\ order' = whole_op_order
  /\ pc' = "genTensors"
  /\ UNCHANGED <<partition_vars, graph_vars, map_vars, result_vars, executor, he_profiling_mode, trace_filepath, whole_op_order, contexts, regs, io_created,
                 gen_tensors_done, migrant_done, ordered_contexts,
                 dealloc_list_map, uses_map, gen_kernels_done, code_map, exec_vars>>

\* ------------------------------------------------------------------------
\* BackendContext::genTensors
\* ------------------------------------------------------------------------
\* the operands a backend allocates: those of its partial graph it produces
NativeOperands(d) == d.operands \ d.external_operands

GenTensorsOf(reg, b, d) ==
  [reg EXCEPT !.native = [ind \in OperandIdx |->
     IF ind \in NativeOperands(d) THEN NativeTensor(b, ind) ELSE @[ind]]]

\* the genTensors loop left after its first iteration
GenTensorsLoopDone_First(done) == done # {}

\* the loop "for (auto &pair : backend_contexts) pair.second->genTensors()"
\* has reached its end
GenTensorsLoopDone(done) == done = DOMAIN contexts

GenTensors(b) ==
  /\ pc = "genTensors"
  /\ b \in DOMAIN contexts
  /\ b \notin gen_tensors_done
  /\ regs' = [regs EXCEPT ![b] = GenTensorsOf(@, b, contexts[b])]
  /\ gen_tensors_done' = gen_tensors_done \cup {b}
  /\ pc' = IF GenTensorsLoopDone(gen_tensors_done') THEN "prepareMigrantTensors" ELSE pc
  /\ UNCHANGED <<partition_vars, graph_vars, map_vars, result_vars, executor, he_profiling_mode, trace_filepath, whole_op_order, contexts, io_created, order,
                 migrant_done, ordered_contexts, dealloc_list_map, uses_map,
                 gen_kernels_done, code_map, exec_vars>>

\* ------------------------------------------------------------------------
\* ExecutorFactory::prepareMigrantTensors
\* ------------------------------------------------------------------------
\* MigrateOperand without the dynamic_cast to IPortableTensor
MigrateOperand_NoCast(rs, backend, ind) ==
  IF GetITensor(rs[backend], ind) # NullTensor THEN rs
  ELSE LET tensor == TensorRegsGetITensor(rs, ind)
       IN  IF tensor # NullTensor
           THEN [rs EXCEPT ![backend].migrant[ind] = tensor]
           ELSE rs

\* MigrateOperand without the test "!backend_ctx->tensor_registry->getITensor(ind)"
MigrateOperand_Overwrite(rs, backend, ind) ==
  LET tensor == TensorRegsGetITensor(rs, ind)
  IN  IF IsPortable(tensor)
      THEN [rs EXCEPT ![backend].migrant[ind] = tensor]
      ELSE rs

\* MigrateOperand with the test of getITensor(ind) inverted: nothing is registered
MigrateOperand_Never(rs, backend, ind) == rs

\* the body of the inner loop: one operand of one operation of `backend`
MigrateOperand(rs, backend, ind) ==
  IF GetITensor(rs[backend], ind) # NullTensor THEN rs
  ELSE LET tensor == TensorRegsGetITensor(rs, ind)
       IN  IF IsPortable(tensor)
           THEN [rs EXCEPT ![backend].migrant[ind] = tensor]
           ELSE rs

RECURSIVE MigrateOperands(_, _, _)
MigrateOperands(rs, backend, io_list) ==
  IF io_list = <<>> THEN rs
  ELSE MigrateOperands(MigrateOperand(rs, backend, Head(io_list)), backend,
                       Tail(io_list))

RECURSIVE MigrateOperations(_, _)
MigrateOperations(rs, op_inds) ==
  IF op_inds = <<>> THEN rs
  ELSE LET op == operations[Head(op_inds)]
       IN  MigrateOperations(MigrateOperands(rs, op.backend, OpIOList(op)),
                             Tail(op_inds))

PrepareMigrantTensors ==
  /\ pc = "prepareMigrantTensors"
  /\ regs' = MigrateOperations(regs, SetToSeq(Ops))
  /\ migrant_done' = TRUE
  /\ pc' = "orderBackendContext"
  /\ UNCHANGED <<partition_vars, graph_vars, map_vars, result_vars, executor, he_profiling_mode, trace_filepath, whole_op_order, contexts, io_created, order,
                 gen_tensors_done, ordered_contexts, dealloc_list_map, uses_map,
                 gen_kernels_done, code_map, exec_vars>>

\* ------------------------------------------------------------------------
\* ExecutorFactory::orderBackendContext
\* ------------------------------------------------------------------------
\* OrderBackendContext with emplace_front for every backend
OrderBackendContext_AllFront(iteration) ==
  [i \in 1 .. Len(iteration) |-> iteration[Len(iteration) + 1 - i]]

RECURSIVE OrderBackendContext(_)
\* the deque built while iterating the context map in the order `iteration`
OrderBackendContext(iteration) ==
  IF iteration = <<>> THEN <<>>
  ELSE LET n        == Len(iteration)
           backend  == iteration[n]
           ordered  == OrderBackendContext(SubSeq(iteration, 1, n - 1))
       IN  IF backend = "builtin"
           THEN Append(ordered, backend)      \* emplace_back
           ELSE <<backend>> \o ordered        \* emplace_front

\* setExecutorMap as if it installed an entry for the subgraph being built
SetExecutorMap_Install(map) == map \cup {0}

\* prepareBuiltinBackend: setExecutorMap hands the shared pointer to the
\* builtin kernel generator; the entries of the map after the call
SetExecutorMap(map) == map

\* prepareBuiltinBackend, then orderBackendContext: the context map is an
\* unordered map, iterated in an order the program does not choose
OrderBackendContexts ==
  /\ pc = "orderBackendContext"
  /\ \E iteration \in OrdersOf(DOMAIN contexts) :
       ordered_contexts' = OrderBackendContext(iteration)
  /\ executor_map' = SetExecutorMap(executor_map)
  /\ kernel_gen_executor_map' = IF BUILTIN \in DOMAIN contexts THEN "executor_map"
                                ELSE kernel_gen_executor_map
  /\ pc' = IF executor = "Linear" THEN "deallocPlan" ELSE "genKernels"
  /\ UNCHANGED <<partition_vars, graph_vars, result_vars, executor, he_profiling_mode, trace_filepath, whole_op_order, contexts, regs, io_created,
                 order, gen_tensors_done, migrant_done, dealloc_list_map, uses_map,
                 gen_kernels_done, code_map, exec_vars>>

\* ------------------------------------------------------------------------
\* createLinearExecutor: "Simulate the execution for deallocation of tensors"
\* ------------------------------------------------------------------------
\* InitialUsesMap without the extra count of the constants
InitialUsesMap_NoPin == [ind \in OperandIdx |-> Cardinality(Uses(ind))]

\* "Prepare scanning" and "A trick to consider constants as an execption"
InitialUsesMap ==
  [ind \in OperandIdx |->
     Cardinality(Uses(ind)) + (IF operands[ind].isConstant THEN 1 ELSE 0)]

\* model_io: (graph.getInputs() + graph.getOutputs()) | UNDEFINED | DUPLICATED
DeallocModelIO == RemoveDuplicated(RemoveUndefined(graph_inputs \o graph_outputs))

\* IsDeallocCandidate without the test of model_io
IsDeallocCandidate_NoIO(ind) == ~operands[ind].isVariable

\* IsDeallocCandidate as if the scan tested is_dynamic() of the tensor
IsDeallocCandidate_Dynamic(ind) ==
  ~operands[ind].isVariable /\ ~Contains(DeallocModelIO, ind) /\ ind \in dynamic

\* the operand may be released once its counter is zero
IsDeallocCandidate(ind) ==
  ~operands[ind].isVariable /\ ~Contains(DeallocModelIO, ind)

\* ScanInput without the test "uses_map[ind] == 0"
ScanInput_NoZeroTest(st, op_ind, ind) ==
  LET n == st.uses_map[ind] - 1
  IN  [uses_map |-> [st.uses_map EXCEPT ![ind] = n],
       dealloc_list_map |->
         IF IsDeallocCandidate(ind)
         THEN [st.dealloc_list_map EXCEPT
                 ![op_ind] = Append(@, TensorRegsGetITensor(regs, ind))]
         ELSE st.dealloc_list_map]

\* the body of "for (const auto &ind : op_inputs)"
ScanInput(st, op_ind, ind) ==
  LET n == st.uses_map[ind] - 1
  IN  [uses_map |-> [st.uses_map EXCEPT ![ind] = n],
       dealloc_list_map |->
         IF n = 0 /\ IsDeallocCandidate(ind)
         THEN [st.dealloc_list_map EXCEPT
                 ![op_ind] = Append(@, TensorRegsGetITensor(regs, ind))]
         ELSE st.dealloc_list_map]

RECURSIVE ScanInputs(_, _, _)
ScanInputs(st, op_ind, op_inputs) ==
  IF op_inputs = <<>> THEN st
  ELSE ScanInputs(ScanInput(st, op_ind, Head(op_inputs)), op_ind, Tail(op_inputs))

RECURSIVE ScanOrder(_, _)
\* "for (const auto op_ind : order)"
ScanOrder(st, ord) ==
  IF ord = <<>> THEN st
  ELSE ScanOrder(ScanInputs(st, Head(ord), OpInputs(operations[Head(ord)])),
                 Tail(ord))

\* the walk without "Dispose and validate"
DisposeConstants_None(um) == um

\* "Dispose and validate": the extra count of each constant is taken back
DisposeConstants(um) ==
  [ind \in DOMAIN um |-> IF operands[ind].isConstant THEN um[ind] - 1 ELSE um[ind]]

DeallocPlan ==
  /\ pc = "deallocPlan"
  /\ LET st == ScanOrder([uses_map |-> InitialUsesMap,
                          dealloc_list_map |-> [o \in Ops |-> <<>>]], order)
     IN  /\ dealloc_list_map' = st.dealloc_list_map
         /\ uses_map' = DisposeConstants(st.uses_map)
  /\ pc' = "genKernels"
  /\ UNCHANGED <<partition_vars, graph_vars, map_vars, result_vars, executor, he_profiling_mode, trace_filepath, whole_op_order, contexts, regs, io_created,
                 order, gen_tensors_done, migrant_done, ordered_contexts,
                 gen_kernels_done, code_map, exec_vars>>

\* ------------------------------------------------------------------------
\* "Generate kernels"
\* ------------------------------------------------------------------------
\* the functions of a sequence: the kernel a backend generates, a
\* SyncFunction around it, a DeallocFunction
KernelFunction == [kind |-> "kernel", config |-> "none", tensors |-> <<>>]

SyncFunction(config) == [kind |-> "SyncFunction", config |-> config, tensors |-> <<>>]

DeallocFunction(tensors) ==
  [kind |-> "DeallocFunction", config |-> "none", tensors |-> tensors]

\* Wrap as if only createLinearExecutor tested he_profiling_mode
Wrap_LinearOnly(op_ind) ==
  IF he_profiling_mode /\ executor = "Linear"
  THEN <<SyncFunction(operations[op_ind].backend)>>
  ELSE <<KernelFunction>>

\* fn_seq->wrap<SyncFunction>(lower_info->backend()->config())
Wrap(op_ind) ==
  IF he_profiling_mode
  THEN <<SyncFunction(operations[op_ind].backend)>>
  ELSE <<KernelFunction>>

\* FnSeqOf as if the DeallocFunction were put in front of the wrapped sequence
FnSeqOf_DeallocFirst(op_ind) ==
  IF executor = "Linear" /\ op_ind \in DOMAIN dealloc_list_map
                         /\ dealloc_list_map[op_ind] # <<>>
  THEN <<DeallocFunction(dealloc_list_map[op_ind])>> \o Wrap(op_ind)
  ELSE Wrap(op_ind)

\* FnSeqOf without the test "!dealloc_list_map[op_ind].empty()"
FnSeqOf_AlwaysAppend(op_ind) ==
  IF executor = "Linear" /\ op_ind \in DOMAIN dealloc_list_map
  THEN Append(Wrap(op_ind), DeallocFunction(dealloc_list_map[op_ind]))
  ELSE Wrap(op_ind)

\* the function sequence installed for one operation returned by genKernels
FnSeqOf(op_ind) ==
  IF executor = "Linear" /\ op_ind \in DOMAIN dealloc_list_map
                         /\ dealloc_list_map[op_ind] # <<>>
  THEN Append(Wrap(op_ind), DeallocFunction(dealloc_list_map[op_ind]))
  ELSE Wrap(op_ind)

\* genKernels may start once the steps before "Generate kernels" are done
GenKernelsMayStart(position) == position = "genKernels"

\* a builder that keeps only the codes of the backend appended last
AppendCodes_Replace(cm, op_order) ==
  [o \in SeqToSet(op_order) |->
     [op_ind |-> o, backend |-> operations[o].backend, fn_seq |-> FnSeqOf(o)]]

\* builder.append for every pair genKernels returned: one pair per operation
\* of the backend's partial graph
AppendCodes(cm, op_order) ==
  [o \in DOMAIN cm \cup SeqToSet(op_order) |->
     IF o \in SeqToSet(op_order)
     THEN [op_ind |-> o, backend |-> operations[o].backend, fn_seq |-> FnSeqOf(o)]
     ELSE cm[o]]

GenKernels(b) ==
  /\ GenKernelsMayStart(pc)
  /\ Len(gen_kernels_done) < Len(ordered_contexts)
  /\ b = ordered_contexts[Len(gen_kernels_done) + 1]
  /\ code_map' = AppendCodes(code_map, contexts[b].op_order)
  /\ gen_kernels_done' = Append(gen_kernels_done, b)
  /\ pc' = IF Len(gen_kernels_done') = Len(ordered_contexts) THEN "newExecutor" ELSE pc
  /\ UNCHANGED <<partition_vars, graph_vars, map_vars, result_vars, executor, he_profiling_mode, trace_filepath, whole_op_order, contexts, regs, io_created,
                 order, gen_tensors_done, migrant_done, ordered_contexts,
                 dealloc_list_map, uses_map, exec_vars>>

\* ------------------------------------------------------------------------
\* The executors (exec::LinearExecutor, DataflowExecutor, ParallelExecutor)
\* ------------------------------------------------------------------------
\* the input operands of an operation that some operation produces
UnresolvedInputs(o) ==
  {ind \in SeqToSet(OpInputs(operations[o])) : DefsIn(Ops, ind) # {}}

\* InitialInputInfo as a flag instead of a count
InitialInputInfo_Flag == [o \in Ops |-> IF UnresolvedInputs(o) = {} THEN 0 ELSE 1]

\* the counter of unresolved inputs of every operation
InitialInputInfo == [o \in Ops |-> Cardinality(UnresolvedInputs(o))]

\* the operations a counter map lets run, in index order
ReadyOf(info, opset) == SetToSeq({o \in opset : info[o] = 0})

\* the (operand, consumer) pairs resolved when operation p has finished
Resolved(p) ==
  {<<ind, o>> \in SeqToSet(OpOutputs(operations[p])) \X Ops :
     ind \in UnresolvedInputs(o)}

\* NotifyConsumers that resets the counter of every consumer of p
NotifyConsumers_Reset(info, p) ==
  [o \in DOMAIN info |-> IF \E r \in Resolved(p) : r[2] = o THEN 0 ELSE info[o]]

\* the counters after operation p has finished
NotifyConsumers(info, p) ==
  [o \in DOMAIN info |-> info[o] - Cardinality({r \in Resolved(p) : r[2] = o})]

\* NewlyReady that enqueues nothing
NewlyReady_None(info, p) == {}

\* the consumers of p whose counter has just reached zero
NewlyReady(info, p) ==
  {o \in DOMAIN info : info[o] > 0 /\ NotifyConsumers(info, p)[o] = 0}

Finished == {ev[2] : ev \in {e \in SeqToSet(trace) : e[1] = "end"}}

Begun == {ev[2] : ev \in {e \in SeqToSet(trace) : e[1] = "begin"}}

\* IsParallel with the arguments bound for "Dataflow" and "Parallel" exchanged
IsParallel_Exchanged(k) == k = "Dataflow"

\* the `parallel` argument std::bind gives createDataflowExecutor
IsParallel(k) == k = "Parallel"

\* the class instantiated by the function _map holds for the key
ExecutorClass(k) ==
  IF k = "Linear" THEN "LinearExecutor"
  ELSE IF IsParallel(k) THEN "ParallelExecutor"
  ELSE "DataflowExecutor"

\* what one function of a sequence calls when it is run for operation o
CallsOf(f, o) ==
  LET kernel == [fn |-> "kernel", op |-> o, backend |-> operations[o].backend]
  IN  IF f.kind = "SyncFunction"          \* _fn->run(); _config->sync();
      THEN <<kernel, [fn |-> "sync", op |-> o, backend |-> f.config]>>
      ELSE IF f.kind = "DeallocFunction"
      THEN <<[fn |-> "dealloc", op |-> o, backend |-> "none"]>>
      ELSE <<kernel>>

RECURSIVE CallsOfSeq(_, _)
\* FunctionSequence::run: the functions are run in sequence order
CallsOfSeq(fn_seq, o) ==
  IF fn_seq = <<>> THEN <<>>
  ELSE CallsOf(Head(fn_seq), o) \o CallsOfSeq(Tail(fn_seq), o)

\* the operands whose tensor a DeallocFunction of the sequence is given
DeallocTensorsOf(fn_seq) ==
  UNION {{f.tensors[k].ind : k \in DOMAIN f.tensors} :
           f \in {g \in SeqToSet(fn_seq) : g.kind = "DeallocFunction"}}

\* the tensors whose is_dynamic() is ever asked: those a DeallocFunction of
\* the executor's function sequences is given
DeallocTensors ==
  UNION {DeallocTensorsOf(code_map[q].fn_seq) : q \in DOMAIN code_map}

\* what a kernel may do to the tensors it writes: run-time shape inference
\* marks any of its outputs dynamic (followed for the tensors whose flag is
\* ever asked)
KernelOutcomes(o) ==
  SUBSET (SeqToSet(RemoveUndefined(operations[o].outputs)) \cap DeallocTensors)

\* DeallocFunction::run without the test of is_dynamic()
ReleasedBy_All(tensors, dyn) == tensors

\* DeallocFunction::run: of the tensors it is given, the buffers released
ReleasedBy(tensors, dyn) == {ind \in tensors : ind \in dyn}

\* the values of options.trace_filepath: empty, or the path of a file
TraceFilepaths == {"", "/tmp/t.json"}

\* TracingObserver as if the path were never tested
TracingObservers_Always(path) == <<"TracingObserver">>

\* "if (!options.trace_filepath.empty())" at the end of both factory functions
TracingObservers(path) ==
  IF path # "" THEN <<"TracingObserver">> ELSE <<>>

\* ProfileObserver as if the test of he_profiling_mode stood outside of
\* "if (parallel) ... else ..."
ProfileObservers_AnyDataflow(parallel, profiling) ==
  IF profiling THEN <<"ProfileObserver">> ELSE <<>>

\* createDataflowExecutor: the test of he_profiling_mode stands in the branch
\* that makes the DataflowExecutor
ProfileObservers(parallel, profiling) ==
  IF parallel THEN <<>>
  ELSE IF profiling THEN <<"ProfileObserver">> ELSE <<>>

\* the addObserver calls of the factory function that _map holds for the key
ObserversOf(k, profiling, path) ==
  IF k = "Linear" THEN TracingObservers(path)
  ELSE ProfileObservers(IsParallel(k), profiling) \o TracingObservers(path)

NewExecutor ==
  /\ pc = "newExecutor"
  /\ exec' = ExecutorClass(executor)
  /\ \E path \in TraceFilepaths :    \* options.trace_filepath is first read here
       /\ trace_filepath' = path
       /\ observers' = ObserversOf(executor, he_profiling_mode, path)
  /\ exec_time' \in IF Contains(ProfileObservers(IsParallel(executor), he_profiling_mode),
                                "ProfileObserver") /\ executor # "Linear"
                    THEN {ExecTime(backends) : backends \in MovedFrom(DOMAIN contexts)}
                    ELSE {NoExecTime}
  /\ IF executor = "Linear"
     THEN /\ input_info' = input_info
          /\ ready' = ready
     ELSE /\ input_info' = InitialInputInfo
          /\ ready' = ReadyOf(InitialInputInfo, Ops)
  /\ enqueued' = ready'
  /\ ordered_contexts' = <<>>     \* the locals of the factory function end here
  /\ gen_kernels_done' = <<>>
  /\ pc' = "run"
  /\ UNCHANGED <<partition_vars, graph_vars, map_vars, error, executor, he_profiling_mode, whole_op_order,
                 contexts, regs, io_created, order, gen_tensors_done, migrant_done,
                 dealloc_list_map, uses_map, code_map, running, trace, calls, released,
                 dynamic, on_error>>

\* LinearExecutor: the next operation of the linearized order runs
NextLinearOp_Backwards == order[Len(order) - Cardinality(Finished)]

\* the operation the loop over the order has reached
NextLinearOp == order[Cardinality(Finished) + 1]

\* the functions of the sequence run in order: the kernel, then the
\* DeallocFunction, which asks each tensor is_dynamic() when it runs
LinearStep ==
  /\ pc = "run"
  /\ exec = "LinearExecutor"
  /\ Cardinality(Finished) < Len(order)
  /\ LET o == NextLinearOp
     IN  /\ trace' = trace \o << <<"begin", o>>, <<"end", o>> >>
         /\ calls' = calls \o CallsOfSeq(code_map[o].fn_seq, o)
         /\ \E d \in KernelOutcomes(o) : dynamic' = dynamic \cup d
         /\ released' = released \cup
                           ReleasedBy(DeallocTensorsOf(code_map[o].fn_seq), dynamic')
  /\ UNCHANGED <<partition_vars, graph_vars, map_vars, result_vars, executor, he_profiling_mode, trace_filepath, pc, ctor_vars,
                 input_info, ready, running, on_error, enqueued>>

\* the ready queue popped at its back
NextJob_Back(queue) == queue[Len(queue)]

\* the ready queue is FIFO: the job that has waited longest is popped
NextJob(queue) == Head(queue)

\* DataflowExecutor: pop a ready operation, run it, notify its consumers
DataflowStep ==
  /\ pc = "run"
  /\ exec = "DataflowExecutor"
  /\ ready # <<>>
  /\ LET o == NextJob(ready)
     IN  /\ trace' = trace \o << <<"begin", o>>, <<"end", o>> >>
         /\ calls' = calls \o CallsOfSeq(code_map[o].fn_seq, o)
         /\ input_info' = NotifyConsumers(input_info, o)
         /\ ready' = SelectSeq(ready, LAMBDA j : j # o) \o
                        SetToSeq(NewlyReady(input_info, o))
         /\ enqueued' = enqueued \o SetToSeq(NewlyReady(input_info, o))
         /\ \E d \in KernelOutcomes(o) : dynamic' = dynamic \cup d
         /\ released' = released \cup
                           ReleasedBy(DeallocTensorsOf(code_map[o].fn_seq), dynamic')
  /\ UNCHANGED <<partition_vars, graph_vars, map_vars, result_vars, executor, he_profiling_mode, trace_filepath, pc, ctor_vars,
                 running, on_error>>

\* ParallelExecutor: a ready operation is handed to a worker
ParallelBegin ==
  /\ pc = "run"
  /\ exec = "ParallelExecutor"
  /\ ready # <<>>
  /\ running' = running \cup {Head(ready)}
  /\ ready' = Tail(ready)
  /\ trace' = Append(trace, <<"begin", Head(ready)>>)
  /\ UNCHANGED <<partition_vars, graph_vars, map_vars, result_vars, executor, he_profiling_mode, trace_filepath, pc, ctor_vars,
                 input_info, calls, released, dynamic, on_error, enqueued>>

\* ParallelExecutor: a worker has finished its operation
ParallelEnd(o) ==
  /\ pc = "run"
  /\ exec = "ParallelExecutor"
  /\ o \in running
  /\ running' = running \ {o}
  /\ trace' = Append(trace, <<"end", o>>)
  /\ calls' = calls \o CallsOfSeq(code_map[o].fn_seq, o)
  /\ input_info' = NotifyConsumers(input_info, o)
  /\ ready' = ready \o SetToSeq(NewlyReady(input_info, o))
  /\ enqueued' = enqueued \o SetToSeq(NewlyReady(input_info, o))
  /\ \E d \in KernelOutcomes(o) : dynamic' = dynamic \cup d
  /\ released' = released \cup
                    ReleasedBy(DeallocTensorsOf(code_map[o].fn_seq), dynamic')
  /\ UNCHANGED <<partition_vars, graph_vars, map_vars, result_vars, executor, he_profiling_mode, trace_filepath, pc, ctor_vars,
                 on_error>>

\* run() returns: nothing is left to run
RunReturns ==
  /\ pc = "run"
  /\ IF exec = "LinearExecutor"
     THEN Cardinality(Finished) = Len(order)
     ELSE ready = <<>> /\ running = {}
  /\ pc' = "done"
  /\ UNCHANGED <<partition_vars, graph_vars, map_vars, result_vars, executor, he_profiling_mode, trace_filepath, ctor_vars, exec_vars>>

\* an operation whose kernel is about to run or is running
KernelAtWork ==
  IF exec = "LinearExecutor" THEN Cardinality(Finished) < Len(order)
  ELSE IF exec = "DataflowExecutor" THEN ready # <<>>
  ELSE running # {}

\* the failing run as if it told no observer
OnErrorOf_Nobody(obs) == <<>>

\* the observers that receive onError when a kernel has thrown
OnErrorOf(obs) == obs

\* a kernel throws: the executor aborts and notifies its observers
KernelThrows ==
  /\ pc = "run"
  /\ KernelAtWork
  /\ on_error' = OnErrorOf(observers)
  /\ pc' = "unwinding"
  /\ UNCHANGED <<partition_vars, graph_vars, map_vars, result_vars, executor, he_profiling_mode, trace_filepath, ctor_vars,
                 input_info, ready, running, trace, calls, released, dynamic, enqueued>>

\* the failure leaves run() as an ExecutionError; the executor is not run again
RunThrows ==
  /\ pc = "unwinding"
  /\ error' = "ExecutionError"
  /\ pc' = "aborted"
  /\ UNCHANGED <<partition_vars, graph_vars, map_vars, exec, observers, exec_time, executor, he_profiling_mode, trace_filepath,
                 ctor_vars, exec_vars>>

Next ==
  \/ Create
  \/ CreateBackendContexts
  \/ InitializeSubgraphIOTensors
  \/ Linearize
  \/ \E b \in Backends : GenTensors(b)
  \/ PrepareMigrantTensors
  \/ OrderBackendContexts
  \/ DeallocPlan
  \/ \E b \in Backends : GenKernels(b)
  \/ NewExecutor
  \/ LinearStep
  \/ DataflowStep
  \/ ParallelBegin
  \/ \E o \in OpIdx : ParallelEnd(o)
  \/ RunReturns
  \/ KernelThrows
  \/ RunThrows

Spec == Init /\ [][Next]_vars

\* ------------------------------------------------------------------------
\* luci partition: clone_node and ConnectNode
\* ------------------------------------------------------------------------
factory_vars == <<graph_vars, map_vars, result_vars, executor, he_profiling_mode,
                  trace_filepath, pc, ctor_vars, exec_vars>>

\* no graph is being compiled
NoGraph ==
  /\ operands = <<>>
  /\ operations = <<>>
  /\ graph_inputs = <<>>
  /\ graph_outputs = <<>>
  /\ layout = "NHWC"
  /\ backend_manager = {}
  /\ portable_backends = {}

PartitionInit ==
  /\ NoGraph
  /\ FactoryStart
  /\ node \in Nodes
  /\ cloned = NoNode
  /\ clonecontext \in CloneContexts
  /\ connect_pc = "start"

\* luci::clone_node: a node of the same class and arity, no input connected
CloneOf(n) == [kind |-> n.kind, args |-> [i \in DOMAIN n.args |-> NullNode]]

\* ConnectNode::find_clone throws for a node that has no registered clone
CloneMissing(n) == n \notin DOMAIN clonecontext

\* ConnectNode::find_clone: the registered clone of a node
FindClone(n) == clonecontext[n]

\* the exception leaves connect() with what has been connected so far
Thrown(args) == [args |-> args, thrown |-> TRUE]

RECURSIVE ConnectInputs(_, _, _)
\* CircleIf: for (in = 0; in < input_count; ++in) cloned->input(in, find_clone(input))
ConnectInputs(n, args, in) ==
  IF in = Len(n.args) - 1 THEN [args |-> args, thrown |-> FALSE]
  ELSE LET input == n.args[in + 2]
       IN  IF CloneMissing(input) THEN Thrown(args)
           ELSE ConnectInputs(n, [args EXCEPT ![in + 2] = FindClone(input)], in + 1)

\* connect of CircleIf that leaves cond unconnected
ConnectIf_NoCond(n, c) == ConnectInputs(n, c.args, 0)

\* connect(ConnectNode *, const CircleIf *): cond, then every input
ConnectIf(n, c) ==
  LET cond == n.args[1]
  IN  IF CloneMissing(cond) THEN Thrown(c.args)
      ELSE ConnectInputs(n, [c.args EXCEPT ![1] = FindClone(cond)], 0)

\* connect(ConnectNode *, const CircleTopKV2 *): input, then k
ConnectTopKV2(n, c) ==
  LET input == n.args[1]
      k     == n.args[2]
  IN  IF CloneMissing(input) THEN Thrown(c.args)
      ELSE IF CloneMissing(k) THEN Thrown([c.args EXCEPT ![1] = FindClone(input)])
      ELSE [args |-> [c.args EXCEPT ![1] = FindClone(input), ![2] = FindClone(k)],
            thrown |-> FALSE]

\* connect(ConnectNode *, const CircleMinimum *): x, then y
ConnectMinimum(n, c) ==
  LET x == n.args[1]
      y == n.args[2]
  IN  IF CloneMissing(x) THEN Thrown(c.args)
      ELSE IF CloneMissing(y) THEN Thrown([c.args EXCEPT ![1] = FindClone(x)])
      ELSE [args |-> [c.args EXCEPT ![1] = FindClone(x), ![2] = FindClone(y)],
            thrown |-> FALSE]

\* ConnectNode::visit: the connect of the node's class
Connect(n, c) ==
  IF n.kind = "CircleIf" THEN ConnectIf(n, c)
  ELSE IF n.kind = "CircleTopKV2" THEN ConnectTopKV2(n, c)
  ELSE ConnectMinimum(n, c)

\* luci::clone_node(node, graph_clone)
CloneNode ==
  /\ connect_pc = "start"
  /\ cloned' = CloneOf(node)
  /\ connect_pc' = "cloned"
  /\ UNCHANGED <<node, clonecontext, factory_vars>>

\* clone_connect(node, clone): the connect of the node's class runs to its end
\* or until find_clone throws
CloneConnect ==
  /\ connect_pc = "cloned"
  /\ LET r == Connect(node, cloned)
     IN  /\ cloned' = [cloned EXCEPT !.args = r.args]
         /\ connect_pc' = IF r.thrown THEN "thrown" ELSE "connected"
  /\ UNCHANGED <<node, clonecontext, factory_vars>>

PartitionNext ==
  \/ CloneNode
  \/ CloneConnect

PartitionSpec == PartitionInit /\ [][PartitionNext]_vars

\* run() blocks until it is complete: the loop of the executor goes on while
\* an operation is ready, and a worker that has begun an operation ends it
FairSpec ==
  /\ Spec
  /\ WF_vars(LinearStep)
  /\ WF_vars(DataflowStep)
  /\ WF_vars(ParallelBegin)
  /\ \A o \in OpIdx : WF_vars(ParallelEnd(o))
  /\ WF_vars(RunReturns)

\* ------------------------------------------------------------------------
\* Positions of the construction
\* ------------------------------------------------------------------------
Partitioned == DOMAIN contexts # {}

IOTensorsMade == Partitioned /\ pc \notin {"initializeSubgraphIOTensors", "failed"}

DeallocPlanned == executor = "Linear" /\ pc \in {"genKernels", "newExecutor", "run", "done"}

Constructed == pc \in {"run", "done"}

\* a kernel has thrown during run()
KernelThrew == pc \in {"unwinding", "aborted"}

\* the defined input and output operands of an operation
DefinedIO(o) ==
  (SeqToSet(operations[o].inputs) \cup SeqToSet(operations[o].outputs)) \ {UNDEFINED}

\* the position of x in a sequence without repetitions
PosIn(s, x) == CHOOSE i \in DOMAIN s : s[i] = x

\* the operation that reads operand ind last in the order
LastUseOp(ind, ord) ==
  CHOOSE o \in Uses(ind) : \A q \in Uses(ind) : PosIn(ord, q) <= PosIn(ord, o)

\* the places of the dealloc lists that hold a tensor of operand ind
DeallocPlaces(ind) ==
  {pl \in UNION {{o} \X DOMAIN dealloc_list_map[o] : o \in DOMAIN dealloc_list_map} :
     dealloc_list_map[pl[1]][pl[2]].ind = ind}

\* the backends in whose partial graph the operand is native / external
NativeIn(ind) == {b \in DOMAIN contexts : ind \in NativeOperands(contexts[b])}

ExternalIn(ind) == {b \in DOMAIN contexts : ind \in contexts[b].external_operands}

PresentIn(ind) == {b \in DOMAIN contexts : ind \in contexts[b].operands}

\* the authoritative (native or IO) tensors the registries hold for an operand
Authoritative(ind) ==
  {<<b, "native">> : b \in {c \in DOMAIN regs : regs[c].native[ind] # NullTensor}}
  \cup {<<b, "io">> : b \in {c \in DOMAIN regs : regs[c].io[ind] # NullTensor}}

AuthoritativeTensors(ind) ==
  ({regs[b].native[ind] : b \in DOMAIN regs} \cup {regs[b].io[ind] : b \in DOMAIN regs})
    \ {NullTensor}

\* ------------------------------------------------------------------------
\* C1  Dataflow readiness: in a Dataflow or Parallel run no operation begins
\*     before every operation producing one of its inputs has finished.
\* ------------------------------------------------------------------------
C1_DataflowReadiness ==
  executor \in {"Dataflow", "Parallel"} =>
    \A k \in DOMAIN trace :
      trace[k][1] = "begin" =>
        \A p \in Producers(trace[k][2]) :
          \E j \in 1 .. (k - 1) : trace[j] = <<"end", p>>

C1_Witness ==
  /\ executor = "Parallel"
  /\ \E k \in DOMAIN trace : trace[k][1] = "begin" /\ Producers(trace[k][2]) # {}

\* ------------------------------------------------------------------------
\* C2  Dealloc soundness (Linear): every tensor in dealloc_list_map[o] is the
\*     tensor of an operand whose last use in the order is o and which is
\*     neither a Variable nor a graph input nor a graph output.
\* ------------------------------------------------------------------------
C2_DeallocSoundness ==
  DeallocPlanned =>
    \A o \in DOMAIN dealloc_list_map :
      \A k \in DOMAIN dealloc_list_map[o] :
        LET t == dealloc_list_map[o][k]
        IN  /\ t # NullTensor
            /\ t.ind \in OperandIdx
            /\ t \in AuthoritativeTensors(t.ind)
            /\ Uses(t.ind) # {}
            /\ LastUseOp(t.ind, order) = o
            /\ ~operands[t.ind].isVariable
            /\ ~Contains(graph_inputs, t.ind)
            /\ ~Contains(graph_outputs, t.ind)

C2_Witness ==
  /\ DeallocPlanned
  /\ \E o \in DOMAIN dealloc_list_map :
       /\ dealloc_list_map[o] # <<>>
       /\ Cardinality(Uses(dealloc_list_map[o][1].ind)) > 1

\* ------------------------------------------------------------------------
\* C3  Dealloc completeness (Linear).  As claimed (constants included): every
\*     operand with a last use that is no Variable, graph input or graph
\*     output is in exactly one dealloc list, that of its last-using operation.
\* ------------------------------------------------------------------------
C3_Original ==
  DeallocPlanned =>
    \A ind \in OperandIdx :
      (Uses(ind) # {} /\ ~operands[ind].isVariable /\ ~IsGraphIO(ind)) =>
        /\ Cardinality(DeallocPlaces(ind)) = 1
        /\ \A pl \in DeallocPlaces(ind) : pl[1] = LastUseOp(ind, order)

\* C3 as amended: the same for every such operand that is not a constant; a
\* constant is in no dealloc list.
C3_DeallocCompleteness ==
  DeallocPlanned =>
    \A ind \in OperandIdx :
      /\ (Uses(ind) # {} /\ ~operands[ind].isVariable /\ ~IsGraphIO(ind)
            /\ ~operands[ind].isConstant) =>
           /\ Cardinality(DeallocPlaces(ind)) = 1
           /\ \A pl \in DeallocPlaces(ind) : pl[1] = LastUseOp(ind, order)
      /\ operands[ind].isConstant => DeallocPlaces(ind) = {}

C3_Witness ==
  /\ DeallocPlanned
  /\ \E ind \in OperandIdx :
       /\ Cardinality(Uses(ind)) > 1
       /\ DeallocPlaces(ind) = {<<LastUseOp(ind, order), 1>>}
       /\ Len(dealloc_list_map[LastUseOp(ind, order)]) = 2

\* ------------------------------------------------------------------------
\* C4  Tensor totality.  As claimed: after the wiring the registry of an
\*     operation's backend resolves each of its defined inputs and outputs,
\*     also when the tensor found elsewhere is not portable.
\* ------------------------------------------------------------------------
C4_Original ==
  migrant_done =>
    \A o \in Ops :
      \A x \in DefinedIO(o) :
        GetITensor(regs[operations[o].backend], x) # NullTensor

\* C4 as amended: the registry resolves the operand to the one tensor the
\* registries hold for it if that tensor is the backend's own or is portable,
\* and to nothing if it is another backend's non-portable tensor.
C4_TensorTotality ==
  migrant_done =>
    \A o \in Ops :
      \A x \in DefinedIO(o) :
        LET b == operations[o].backend
            t == TensorRegsGetITensor(regs, x)
        IN  /\ t # NullTensor
            /\ GetITensor(regs[b], x) =
                 IF IsPortable(t) \/ t.owner = b THEN t ELSE NullTensor

C4_Witness ==
  /\ migrant_done
  /\ \E o \in Ops :
       \E x \in DefinedIO(o) :
         /\ regs[operations[o].backend].migrant[x] # NullTensor
         /\ regs[operations[o].backend].migrant[x].kind = "native"
  /\ \E o \in Ops :
       \E x \in DefinedIO(o) :
         GetITensor(regs[operations[o].backend], x) = NullTensor

\* ------------------------------------------------------------------------
\* C5  Index preservation.  As claimed: every operand index, graph inputs and
\*     outputs and operands without def_factor included, is native in exactly
\*     one partial graph.
\* ------------------------------------------------------------------------
C5_Original ==
  Partitioned =>
    \A ind \in OperandIdx : Cardinality(NativeIn(ind)) = 1

\* C5 as amended: an operand that has a def_factor and is no graph input or
\* output is native in exactly one partial graph, that of its def_factor's
\* backend, and external in every other partial graph holding it; a graph
\* input or output is external in every partial graph holding it, also in
\* that of its own backend; an operand without def_factor is in no partial graph.
C5_IndexPreservation ==
  Partitioned =>
    \A ind \in OperandIdx :
      /\ PresentIn(ind) = NativeIn(ind) \cup ExternalIn(ind)
      /\ NativeIn(ind) \cap ExternalIn(ind) = {}
      /\ (operands[ind].def_factors # {} /\ ~IsGraphIO(ind)) =>
           NativeIn(ind) = operands[ind].def_factors
      /\ (operands[ind].def_factors # {} /\ IsGraphIO(ind)) =>
           /\ NativeIn(ind) = {}
           /\ operands[ind].def_factors \subseteq ExternalIn(ind)
      /\ operands[ind].def_factors = {} => PresentIn(ind) = {}
      /\ ExternalIn(ind) \ operands[ind].def_factors =
           {operations[o].backend : o \in {q \in Ops : ind \in DefinedIO(q)}}
             \ operands[ind].def_factors

C5_Witness ==
  /\ Partitioned
  /\ \E ind \in OperandIdx :
       Cardinality(NativeIn(ind)) = 1 /\ Cardinality(ExternalIn(ind)) = 2
  /\ \E ind \in OperandIdx : IsGraphIO(ind) /\ PresentIn(ind) # {}
  /\ \E ind \in OperandIdx : operands[ind].def_factors = {}

\* ------------------------------------------------------------------------
\* C6  Topological restriction: each backend's op_order is a subsequence of
\*     the whole-graph topological order and holds exactly the operations of
\*     that backend's partial graph.
\* ------------------------------------------------------------------------
C6_TopologicalRestriction ==
  Partitioned =>
    \A b \in DOMAIN contexts :
      /\ IsSubsequence(contexts[b].op_order, whole_op_order)
      /\ NoDuplicates(contexts[b].op_order)
      /\ SeqToSet(contexts[b].op_order) = contexts[b].operations
      /\ contexts[b].operations = {o \in Ops : operations[o].backend = b}

C6_Witness ==
  /\ Partitioned
  /\ \E b \in DOMAIN contexts :
       /\ Len(contexts[b].op_order) = 2
       /\ Len(whole_op_order) = 3
       /\ contexts[b].op_order[1] > contexts[b].op_order[2]

\* ------------------------------------------------------------------------
\* C7  Invariant T3 after wiring.  As claimed: whenever an operation of
\*     backend B references an operand B does not produce, an IOTensor for it
\*     is in the builtin registry or a migrant entry for it is in B's registry.
\* ------------------------------------------------------------------------
C7_Original ==
  migrant_done =>
    \A o \in Ops :
      \A x \in DefinedIO(o) :
        operands[x].def_factors # {operations[o].backend} =>
          \/ regs[BUILTIN].io[x] # NullTensor
          \/ regs[operations[o].backend].migrant[x] # NullTensor

\* C7 as amended: an IOTensor for the operand is in the builtin registry, or
\* a migrant entry for it is in B's registry, or its tensor is a non-portable
\* native tensor of the backend that produces it, and then B's registry has
\* no migrant entry for it.
C7_T3AfterWiring ==
  migrant_done =>
    \A o \in Ops :
      \A x \in DefinedIO(o) :
        operands[x].def_factors # {operations[o].backend} =>
          \/ regs[BUILTIN].io[x] # NullTensor
          \/ regs[operations[o].backend].migrant[x] # NullTensor
          \/ \E d \in operands[x].def_factors :
               /\ regs[d].native[x] # NullTensor
               /\ ~IsPortable(regs[d].native[x])
               /\ regs[operations[o].backend].migrant[x] = NullTensor

C7_Witness ==
  /\ migrant_done
  /\ \E o \in Ops :
       \E x \in DefinedIO(o) :
         /\ operands[x].def_factors # {operations[o].backend}
         /\ regs[BUILTIN].io[x] = NullTensor
         /\ regs[operations[o].backend].migrant[x] # NullTensor

\* ------------------------------------------------------------------------
\* C8  Invariant T1 after construction.  As claimed: every operand index of
\*     the graph has exactly one authoritative (native or IO) tensor across
\*     the registries, and migrant entries alias that tensor.
\* ------------------------------------------------------------------------
C8_Original ==
  Constructed =>
    \A ind \in OperandIdx :
      /\ Cardinality(Authoritative(ind)) = 1
      /\ \A b \in DOMAIN regs :
           regs[b].migrant[ind] # NullTensor =>
             regs[b].migrant[ind] \in AuthoritativeTensors(ind)

\* C8 as amended: every operand that is a graph input or output or has a
\* def_factor has exactly one authoritative tensor, which every migrant entry
\* for it aliases; an unused operand (no def_factor, no graph input or
\* output) has no tensor at all.
C8_T1AfterConstruction ==
  Constructed =>
    \A ind \in OperandIdx :
      /\ (IsGraphIO(ind) \/ operands[ind].def_factors # {}) =>
           Cardinality(Authoritative(ind)) = 1
      /\ (~IsGraphIO(ind) /\ operands[ind].def_factors = {}) =>
           /\ Authoritative(ind) = {}
           /\ \A b \in DOMAIN regs : GetITensor(regs[b], ind) = NullTensor
      /\ \A b \in DOMAIN regs :
           regs[b].migrant[ind] # NullTensor =>
             /\ regs[b].migrant[ind] \in AuthoritativeTensors(ind)
             /\ regs[b].native[ind] = NullTensor
             /\ regs[b].io[ind] = NullTensor

C8_Witness ==
  /\ Constructed
  /\ \E ind \in OperandIdx :
       \E b \in DOMAIN regs :
         regs[b].migrant[ind] # NullTensor /\ regs[b].migrant[ind].kind = "native"
  /\ \E ind \in OperandIdx :
       \E b \in DOMAIN regs :
         regs[b].migrant[ind] # NullTensor /\ regs[b].migrant[ind].kind = "io"

\* ------------------------------------------------------------------------
\* C9  Invariant T2: the builtin registry holds an IOTensor at index i iff i
\*     is a whole-graph input or output; an index that is both gets exactly
\*     one IOTensor.
\* ------------------------------------------------------------------------
C9_T2IOTensors ==
  /\ IOTensorsMade =>
       \A ind \in OperandIdx :
         /\ regs[BUILTIN].io[ind] # NullTensor <=> IsGraphIO(ind)
         /\ regs[BUILTIN].io[ind] # NullTensor => regs[BUILTIN].io[ind] = IOTensor(ind)
         /\ Cardinality({k \in DOMAIN io_created : io_created[k] = ind}) =
              IF IsGraphIO(ind) THEN 1 ELSE 0
         /\ \A b \in DOMAIN regs \ {BUILTIN} : regs[b].io[ind] = NullTensor
  /\ ~IOTensorsMade => io_created = <<>>

C9_Witness ==
  /\ Constructed
  /\ \E ind \in OperandIdx :
       /\ Contains(graph_inputs, ind)
       /\ Contains(graph_outputs, ind)
       /\ regs[BUILTIN].io[ind] = IOTensor(ind)
  /\ \E ind \in OperandIdx : ~IsGraphIO(ind)

\* ------------------------------------------------------------------------
\* C10 Phase ordering, for the three executor kinds: migrant wiring starts
\*     only after genTensors has returned for every backend context, and no
\*     genKernels is called before the wiring has finished.
\* ------------------------------------------------------------------------
C10_PhaseOrdering ==
  [][/\ (migrant_done' /\ ~migrant_done) => gen_tensors_done = DOMAIN contexts
     /\ gen_tensors_done' # gen_tensors_done => ~migrant_done
     /\ gen_kernels_done' # gen_kernels_done =>
          (migrant_done /\ gen_tensors_done = DOMAIN contexts)]_vars

C10_Witness ==
  /\ executor = "Parallel"
  /\ migrant_done
  /\ Len(gen_kernels_done) = Cardinality(DOMAIN contexts)

\* ------------------------------------------------------------------------
\* C11 Kernel generation order: whatever the iteration order of the context
\*     map, genKernels of the builtin backend is called after genKernels of
\*     every other backend.
\* ------------------------------------------------------------------------
C11_KernelGenOrder ==
  /\ \A i \in DOMAIN gen_kernels_done :
       gen_kernels_done[i] = BUILTIN =>
         \A b \in DOMAIN contexts \ {BUILTIN} :
           \E j \in 1 .. (i - 1) : gen_kernels_done[j] = b
  /\ ordered_contexts # <<>> =>
       /\ ordered_contexts[Len(ordered_contexts)] = BUILTIN
       /\ SeqToSet(ordered_contexts) = DOMAIN contexts
       /\ NoDuplicates(ordered_contexts)

C11_Witness ==
  /\ Len(gen_kernels_done) = Cardinality(Backends)
  /\ gen_kernels_done[1] = "cpu"
  /\ gen_kernels_done[Len(gen_kernels_done)] = BUILTIN
  /\ code_map # <<>>

\* the operations a run has begun, in the order it began them
ExecutedOps ==
  LET begins == SelectSeq(trace, LAMBDA e : e[1] = "begin")
  IN  [k \in DOMAIN begins |-> begins[k][2]]

C13_NoUseAfterFree ==
  exec = "LinearExecutor" =>
    /\ \A ind \in released : Uses(ind) # {} /\ Uses(ind) \subseteq Finished
    /\ \A k \in DOMAIN calls :
         calls[k].fn = "dealloc" =>
           \A ind \in DeallocTensorsOf(code_map[calls[k].op].fn_seq) :
             \A j \in DOMAIN calls :
               (calls[j].fn = "kernel" /\ ind \in SeqToSet(operations[calls[j].op].inputs))
                 => j < k

C13_Witness ==
  /\ exec = "LinearExecutor"
  /\ pc = "done"
  /\ \E ind \in released : Cardinality(Uses(ind)) > 1
  /\ \E ind \in OperandIdx :
       /\ ind \notin released
       /\ \E o \in Ops : ind \in DeallocTensorsOf(code_map[o].fn_seq)

\* operation p writes an operand that operation q reads or writes
Conflict(p, q) ==
  \E ind \in SeqToSet(OpOutputs(operations[p])) :
    ind \in SeqToSet(OpInputs(operations[q])) \cup SeqToSet(OpOutputs(operations[q]))

\* ------------------------------------------------------------------------
\* C14 Parallel concurrency invariant: two operations a ParallelExecutor has
\*     running at the same time are independent: neither writes an operand
\*     the other reads or writes.
\* ------------------------------------------------------------------------
C14_ParallelIndependence ==
  exec = "ParallelExecutor" =>
    \A p, q \in running : p # q => ~Conflict(p, q) /\ ~Conflict(q, p)

C14_Witness ==
  /\ exec = "ParallelExecutor"
  /\ Cardinality(running) = 2
  /\ \E o \in Ops \ running : \E p \in running : Conflict(p, o)

\* operation o has been begun and ended exactly once
ExecutedOnce(o) ==
  /\ Cardinality({k \in DOMAIN trace : trace[k] = <<"begin", o>>}) = 1
  /\ Cardinality({k \in DOMAIN trace : trace[k] = <<"end", o>>}) = 1

\* ------------------------------------------------------------------------
\* C15 Run termination: run() of a Linear, Dataflow or Parallel executor
\*     eventually completes, and at completion every operation of the graph
\*     has been executed exactly once.
\* ------------------------------------------------------------------------
C15_RunTermination ==
  /\ [](pc = "done" => \A o \in Ops : ExecutedOnce(o))
  /\ (pc = "run") ~> (pc = "done" \/ KernelThrew)

C15_Witness ==
  /\ pc = "done"
  /\ exec = "ParallelExecutor"
  /\ Len(ExecutedOps) = 3
  /\ \A o \in Ops : ExecutedOnce(o)

\* ------------------------------------------------------------------------
\* C16 Executor selection: create returns a LinearExecutor for "Linear", a
\*     DataflowExecutor for "Dataflow" and a ParallelExecutor for "Parallel";
\*     the linearized order and the dealloc plan are computed for Linear only.
\* ------------------------------------------------------------------------
C16_ExecutorSelection ==
  /\ Constructed => exec # "none"
  /\ exec # "none" =>
       /\ executor = "Linear" <=> exec = "LinearExecutor"
       /\ executor = "Dataflow" <=> exec = "DataflowExecutor"
       /\ executor = "Parallel" <=> exec = "ParallelExecutor"
  /\ executor # "Linear" =>
       /\ order = <<>>
       /\ DOMAIN dealloc_list_map = {}
       /\ DOMAIN uses_map = {}
       /\ \A o \in DOMAIN code_map : DeallocTensorsOf(code_map[o].fn_seq) = {}
  /\ exec = "LinearExecutor" =>
       /\ SeqToSet(order) = Ops /\ IsTopological(order)
       /\ DOMAIN dealloc_list_map = Ops

C16_Witness ==
  /\ exec = "DataflowExecutor"
  /\ pc = "done"
  /\ Len(ExecutedOps) = 3
  /\ order = <<>>

\* nothing of the construction exists: no backend context, tensor or kernel
NothingCreated ==
  /\ DOMAIN contexts = {}
  /\ DOMAIN regs = {}
  /\ io_created = <<>>
  /\ gen_tensors_done = {}
  /\ gen_kernels_done = <<>>
  /\ DOMAIN code_map = {}

\* ------------------------------------------------------------------------
\* C17 As claimed: an options.executor value other than Linear, Dataflow
\*     and Parallel makes the construction fail with ConfigError; no executor
\*     is returned and no backend context, tensor or kernel has been created.
\* ------------------------------------------------------------------------
C17_Original ==
  (pc # "start" /\ executor \notin ExecutorKinds) =>
    /\ pc = "failed" /\ error = "ConfigError"
    /\ exec = "none"
    /\ NothingCreated

\* C17 as amended: the construction fails with the std::out_of_range that
\* _map.at throws; no executor is returned and nothing has been created.
C17_UnknownExecutor ==
  (pc # "start" /\ executor \notin ExecutorKinds) =>
    /\ pc = "failed" /\ error = "std::out_of_range"
    /\ exec = "none"
    /\ NothingCreated

C17_Witness ==
  /\ executor = "Unknown"
  /\ pc = "failed"
  /\ error # "none"

\* ------------------------------------------------------------------------
\* C18 If no backend context belongs to the builtin backend, the creation
\*     of the IO tensors fails with ConfigError before an IOTensor is
\*     installed and before genTensors or genKernels is called on any
\*     backend; no executor is returned.
\* ------------------------------------------------------------------------
C18_MissingBuiltin ==
  (Partitioned /\ BUILTIN \notin DOMAIN contexts
     /\ pc # "initializeSubgraphIOTensors") =>
    /\ pc = "failed" /\ error = "ConfigError"
    /\ io_created = <<>>
    /\ gen_tensors_done = {}
    /\ gen_kernels_done = <<>>
    /\ exec = "none"

\* ------------------------------------------------------------------------
\* C19 If an operand of the lowered graph has more than one def_factor
\*     (invariant L1 does not hold), the partitioning fails with ConfigError
\*     and no backend context is created.
\* ------------------------------------------------------------------------
C19_L1Violation ==
  ((\E ind \in OperandIdx : Cardinality(operands[ind].def_factors) > 1)
     /\ executor \in ExecutorKinds /\ pc # "createBackendContexts") =>
    /\ pc = "failed" /\ error = "ConfigError"
    /\ DOMAIN contexts = {}
    /\ DOMAIN regs = {}
    /\ exec = "none"

C19_Witness ==
  /\ pc = "failed"
  /\ executor \in ExecutorKinds
  /\ \E ind \in OperandIdx :
       operands[ind].def_factors = {"cpu", "gpu"} /\ Uses(ind) # {}
  /\ DOMAIN contexts = {}

\* ------------------------------------------------------------------------
\* C20 Profiling sync: the function sequence of an operation is wrapped in a
\*     SyncFunction iff he_profiling_mode is set, for the three executor
\*     kinds, and running a wrapped sequence calls sync() of the operation's
\*     own backend after the inner sequence has finished and before control
\*     returns from the operation.
\* ------------------------------------------------------------------------
C20_ProfilingSync ==
  /\ \A o \in DOMAIN code_map :
       LET fn_seq == code_map[o].fn_seq
       IN  /\ fn_seq[1].kind = "SyncFunction" <=> he_profiling_mode
           /\ fn_seq[1].kind = "SyncFunction" =>
                fn_seq[1].config = operations[o].backend
           /\ \A k \in DOMAIN fn_seq : k > 1 => fn_seq[k].kind = "DeallocFunction"
  /\ \A k \in DOMAIN calls :
       /\ calls[k].fn = "kernel" =>
            (he_profiling_mode <=>
               /\ k + 1 \in DOMAIN calls
               /\ calls[k + 1] = [fn |-> "sync", op |-> calls[k].op,
                                  backend |-> operations[calls[k].op].backend])
       /\ calls[k].fn = "sync" =>
            k > 1 /\ calls[k - 1].fn = "kernel" /\ calls[k - 1].op = calls[k].op
  /\ \A o \in Finished :
       Cardinality({k \in DOMAIN calls : calls[k].fn = "sync" /\ calls[k].op = o})
         = IF he_profiling_mode THEN 1 ELSE 0

C20_Witness ==
  /\ he_profiling_mode
  /\ exec = "ParallelExecutor"
  /\ pc = "done"
  /\ \E k \in DOMAIN calls : calls[k].fn = "sync" /\ calls[k].backend = "gpu"
  /\ \E k \in DOMAIN calls : calls[k].fn = "sync" /\ calls[k].backend = "cpu"

\* the DeallocFunctions of a function sequence
DeallocFunctionsOf(fn_seq) ==
  {k \in DOMAIN fn_seq : fn_seq[k].kind = "DeallocFunction"}

\* ------------------------------------------------------------------------
\* C21 A DeallocFunction is appended to the function sequence of operation o
\*     iff the executor is Linear and dealloc_list_map[o] is not empty; the
\*     sequences of Dataflow and Parallel executors never hold one.
\* ------------------------------------------------------------------------
C21_DeallocAppend ==
  \A o \in DOMAIN code_map :
    LET fn_seq == code_map[o].fn_seq
    IN  /\ DeallocFunctionsOf(fn_seq) # {} <=>
             (executor = "Linear" /\ dealloc_list_map[o] # <<>>)
        /\ executor # "Linear" => DeallocFunctionsOf(fn_seq) = {}
        /\ \A k \in DeallocFunctionsOf(fn_seq) :
             /\ k = Len(fn_seq) /\ k > 1
             /\ fn_seq[k].tensors = dealloc_list_map[o]

C21_Witness ==
  /\ executor = "Linear"
  /\ DOMAIN code_map = Ops
  /\ \E o \in Ops : DeallocFunctionsOf(code_map[o].fn_seq) # {}
  /\ \E o \in Ops : DeallocFunctionsOf(code_map[o].fn_seq) = {}

\* the functions called by the step that is being taken
NewCalls == SubSeq(calls', Len(calls) + 1, Len(calls'))

\* the tensors listed in the DeallocFunctions the step runs
ListedByStep ==
  UNION {DeallocTensorsOf(code_map[c.op].fn_seq) :
           c \in {x \in SeqToSet(NewCalls) : x.fn = "dealloc"}}

\* ------------------------------------------------------------------------
\* C22 DeallocFunction::run releases the buffer of exactly those of its
\*     listed tensors that are dynamic when it runs; the buffers of static
\*     tensors and of tensors it does not list are left as they were.
\* ------------------------------------------------------------------------
C22_DeallocRun ==
  [][released' = released \cup {ind \in ListedByStep : ind \in dynamic'}]_vars

C22_Witness ==
  /\ \E k \in DOMAIN calls :
       /\ calls[k].fn = "dealloc"
       /\ \E ind \in DeallocTensorsOf(code_map[calls[k].op].fn_seq) :
            ind \in released
  /\ \E k \in DOMAIN calls :
       /\ calls[k].fn = "dealloc"
       /\ \E ind \in DeallocTensorsOf(code_map[calls[k].op].fn_seq) :
            ind \notin dynamic /\ ind \notin released
  /\ \E ind \in OperandIdx \ DeallocTensors :
       operands[ind].def_factors # {} /\ ind \notin released

\* ------------------------------------------------------------------------
\* C23 A TracingObserver is attached to the executor iff
\*     options.trace_filepath is not empty, whichever of Linear, Dataflow and
\*     Parallel the executor is.
\* ------------------------------------------------------------------------
C23_TracingObserver ==
  Constructed =>
    /\ Contains(observers, "TracingObserver") <=> trace_filepath # ""
    /\ Cardinality({k \in DOMAIN observers : observers[k] = "TracingObserver"}) <= 1

C23_Witness ==
  /\ pc = "done"
  /\ exec = "ParallelExecutor"
  /\ trace_filepath # ""
  /\ Contains(observers, "TracingObserver")

\* ------------------------------------------------------------------------
\* C24 (as stated) A ProfileObserver is attached whenever he_profiling_mode
\*     is set and the executor is Dataflow or Parallel; never to a Linear
\*     executor and never when he_profiling_mode is not set.
\* ------------------------------------------------------------------------
C24_Original ==
  Constructed =>
    (Contains(observers, "ProfileObserver") <=>
       (he_profiling_mode /\ executor \in {"Dataflow", "Parallel"}))

\* C24 (amended) A ProfileObserver is attached iff he_profiling_mode is set
\*     and the executor is Dataflow; never to a Linear or a Parallel executor
\*     and never when he_profiling_mode is not set.
C24_ProfileObserver ==
  Constructed =>
    /\ Contains(observers, "ProfileObserver") <=>
         (he_profiling_mode /\ executor = "Dataflow")
    /\ Cardinality({k \in DOMAIN observers : observers[k] = "ProfileObserver"}) <= 1

C24_Witness ==
  /\ pc = "done"
  /\ exec = "DataflowExecutor"
  /\ he_profiling_mode
  /\ observers = <<"ProfileObserver", "TracingObserver">>

\* ------------------------------------------------------------------------
\* C25 Execution failure: when a kernel throws during run(), no further
\*     operation is started, every observer receives onError before the
\*     error leaves run(), the error surfaces as ExecutionError, and the
\*     executor stays unusable afterwards.
\* ------------------------------------------------------------------------
C25_ExecutionFailure ==
  [][/\ KernelThrew => (trace' = trace /\ calls' = calls /\ running' = running)
     /\ (pc = "run" /\ KernelThrew') => on_error' = observers
     /\ (error # "ExecutionError" /\ error' = "ExecutionError") =>
          (pc = "unwinding" /\ on_error = observers)
     /\ pc = "unwinding" => (pc' = "aborted" /\ error' = "ExecutionError")
     /\ pc = "aborted" => vars' = vars]_vars

C25_Witness ==
  /\ pc = "aborted"
  /\ error = "ExecutionError"
  /\ observers # <<>>
  /\ on_error = observers
  /\ Finished # {}
  /\ Finished # Ops

\* ------------------------------------------------------------------------
\* C26 The shared ExecutorMap is never modified by executor construction
\*     (create, prepareBuiltinBackend) nor by run() of any executor: its set
\*     of entries is the same in every state after execution has begun.
\* ------------------------------------------------------------------------
C26_ExecutorMapFrame == [][executor_map' = executor_map]_vars

C26_Witness ==
  /\ pc = "done"
  /\ kernel_gen_executor_map = "executor_map"
  /\ executor_map = InstalledExecutors
  /\ ExecutedOps # <<>>

\* ------------------------------------------------------------------------
\* C27 DataflowExecutor scheduling: the initial ready queue holds exactly
\*     the operations with zero unresolved inputs, an operation is enqueued
\*     exactly when its counter of unresolved inputs reaches zero, and the
\*     operations are run in the FIFO order in which they were enqueued.
\* ------------------------------------------------------------------------
C27_DataflowScheduling ==
  exec = "DataflowExecutor" =>
    /\ ExecutedOps = <<>> =>
         SeqToSet(ready) = {o \in Ops : UnresolvedInputs(o) = {}}
    /\ SeqToSet(enqueued) = {o \in Ops : input_info[o] = 0}
    /\ NoDuplicates(enqueued)
    /\ enqueued = ExecutedOps \o ready

C27_Witness ==
  /\ exec = "DataflowExecutor"
  /\ pc = "done"
  /\ Len(enqueued) = 3
  /\ \E o \in Ops : UnresolvedInputs(o) # {}
  /\ Cardinality({o \in Ops : UnresolvedInputs(o) = {}}) > 1

\* the partial graphs that hold operation o
HoldersOf(o) == {b \in DOMAIN contexts : o \in contexts[b].operations}

\* ------------------------------------------------------------------------
\* C28 Operation partitioning: every operation of the whole graph is copied
\*     into exactly one partial graph, that of its backend, under its own
\*     index; no operation is in two partial graphs or under another index.
\* ------------------------------------------------------------------------
C28_OperationPartitioning ==
  Partitioned =>
    /\ \A o \in Ops : HoldersOf(o) = {operations[o].backend}
    /\ \A b \in DOMAIN contexts : contexts[b].operations \subseteq Ops

C28_Witness ==
  /\ Partitioned
  /\ Cardinality(Ops) = 3
  /\ Cardinality({operations[o].backend : o \in Ops}) = 2
  /\ \E b \in DOMAIN contexts : contexts[b].operations = {}
  /\ \A o \in Ops : Cardinality(HoldersOf(o)) = 1

\* ------------------------------------------------------------------------
\* C29 External-operand closure: for every backend B and every operation of
\*     B's partial graph, each defined input and output operand of the
\*     operation is in B's partial graph under its own index, and each such
\*     operand whose def_factor backend is not B is in B's external_operands.
\* ------------------------------------------------------------------------
C29_ExternalClosure ==
  Partitioned =>
    \A b \in DOMAIN contexts :
      \A o \in contexts[b].operations :
        \A ind \in DefinedIO(o) :
          /\ ind \in contexts[b].operands
          /\ operands[ind].def_factors # {b} => ind \in contexts[b].external_operands

C29_Witness ==
  /\ Partitioned
  /\ \E b \in DOMAIN contexts :
       \E o \in contexts[b].operations :
         /\ \E ind \in DefinedIO(o) :
              /\ operands[ind].def_factors # {b}
              /\ ~IsGraphIO(ind)
              /\ ind \in contexts[b].external_operands
         /\ \E ind \in DefinedIO(o) :
              /\ operands[ind].def_factors = {b}
              /\ ind \notin contexts[b].external_operands

\* ------------------------------------------------------------------------
\* C30 Partial-graph boundary: in every partial graph each whole-graph input
\*     or output it holds is in external_operands; its input list is exactly
\*     the whole-graph inputs among its operands plus its operands that have
\*     no defining operation in it and are not constant; its output list is
\*     exactly the whole-graph outputs among its operands plus its operands
\*     that have no use in it.
\* ------------------------------------------------------------------------
C30_PartialGraphBoundary ==
  Partitioned =>
    \A b \in DOMAIN contexts :
      LET d == contexts[b]
      IN  /\ \A ind \in d.operands : IsGraphIO(ind) => ind \in d.external_operands
          /\ NoDuplicates(d.inputs)
          /\ NoDuplicates(d.outputs)
          /\ SeqToSet(d.inputs) =
               {ind \in d.operands : Contains(graph_inputs, ind)} \cup
               {ind \in d.operands :
                  DefsIn(d.operations, ind) = {} /\ ~operands[ind].isConstant}
          /\ SeqToSet(d.outputs) =
               {ind \in d.operands : Contains(graph_outputs, ind)} \cup
               {ind \in d.operands : UsesIn(d.operations, ind) = {}}

C30_Witness ==
  /\ Partitioned
  /\ \E b \in DOMAIN contexts :
       LET d == contexts[b]
       IN  /\ \E ind \in d.operands :
                operands[ind].isConstant /\ ~Contains(d.inputs, ind)
           /\ \E ind \in SeqToSet(d.inputs) : ~Contains(graph_inputs, ind)
           /\ \E ind \in SeqToSet(d.outputs) : ~Contains(graph_outputs, ind)
           /\ \E ind \in d.operands : IsGraphIO(ind)

\* ------------------------------------------------------------------------
\* C31 Migrant registration: prepareMigrantTensors adds a migrant entry for
\*     (backend B, operand x) only when B's registry had no tensor for x and
\*     the tensor found in another registry is portable; the entry is at
\*     index x and is that very tensor; no entry of any registry is replaced
\*     or removed, and a second run of the wiring changes nothing.
\* ------------------------------------------------------------------------
C31_MigrantRegistration ==
  [][pc = "prepareMigrantTensors" =>
       /\ \A b \in DOMAIN regs :
            /\ regs'[b].native = regs[b].native
            /\ regs'[b].io = regs[b].io
            /\ \A x \in OperandIdx :
                 regs'[b].migrant[x] # regs[b].migrant[x] =>
                   /\ GetITensor(regs[b], x) = NullTensor
                   /\ IsPortable(regs'[b].migrant[x])
                   /\ regs'[b].migrant[x].ind = x
                   /\ \E other \in DOMAIN regs \ {b} :
                        GetITensor(regs[other], x) = regs'[b].migrant[x]
       /\ MigrateOperations(regs', SetToSeq(Ops)) = regs']_vars

C31_Witness ==
  /\ pc = "orderBackendContext"
  /\ \E b \in DOMAIN regs : \E x \in OperandIdx : regs[b].migrant[x] # NullTensor
  /\ \E o \in Ops : \E x \in DefinedIO(o) :
       GetITensor(regs[operations[o].backend], x) = NullTensor

\* ------------------------------------------------------------------------
\* C32 Migrant lookup always succeeds: during migrant wiring, for every
\*     operation and every defined input or output operand that is missing
\*     from the registry of the operation's backend, the search across all
\*     registries finds a tensor (never null).
\* ------------------------------------------------------------------------
C32_MigrantLookup ==
  pc = "prepareMigrantTensors" =>
    \A o \in Ops :
      \A x \in DefinedIO(o) :
        GetITensor(regs[operations[o].backend], x) = NullTensor =>
          TensorRegsGetITensor(regs, x) # NullTensor

C32_Witness ==
  /\ pc = "prepareMigrantTensors"
  /\ \E o \in Ops :
       \E x \in DefinedIO(o) :
         /\ GetITensor(regs[operations[o].backend], x) = NullTensor
         /\ TensorRegsGetITensor(regs, x).kind = "native"
  /\ \E o \in Ops :
       \E x \in DefinedIO(o) :
         /\ GetITensor(regs[operations[o].backend], x) = NullTensor
         /\ TensorRegsGetITensor(regs, x).kind = "io"

\* the graph is that of the two-backend scenario
TwoBackendScenario ==
  /\ operations = ScenarioOperations
  /\ graph_inputs = <<OperandA>>
  /\ graph_outputs = <<OperandD>>

\* ------------------------------------------------------------------------
\* C33 (as stated) Two-backend scenario In(A) -> Conv[gpu](A,W) ->
\*     Relu[cpu](C) -> Out(D): the gpu partial graph has operands exactly
\*     {A,W,C} with A and W external, the cpu partial graph has operands
\*     exactly {C,D} with C external, cpu's registry gets a migrant entry for
\*     C that is gpu's native tensor, and the linear order is [Conv, Relu].
\* ------------------------------------------------------------------------
C33_Original ==
  (TwoBackendScenario /\ Partitioned) =>
    /\ contexts["gpu"].operands = {OperandA, OperandW, OperandC}
    /\ {OperandA, OperandW} \subseteq contexts["gpu"].external_operands
    /\ contexts["cpu"].operands = {OperandC, OperandD}
    /\ OperandC \in contexts["cpu"].external_operands
    /\ migrant_done => regs["cpu"].migrant[OperandC] = NativeTensor("gpu", OperandC)
    /\ DeallocPlanned => order = <<OpConv, OpRelu>>

\* C33 (amended) In the two-backend scenario the gpu partial graph has
\*     operands exactly {A,W,C} with A external, and W external iff W is not
\*     lowered to gpu; the cpu partial graph has operands exactly {C,D} (and W
\*     iff W is lowered to cpu) with C external; cpu's registry gets a
\*     migrant entry for C, gpu's native tensor, iff that tensor is portable;
\*     the linear order is [Conv, Relu].
C33_TwoBackendScenario ==
  (TwoBackendScenario /\ Partitioned) =>
    LET w == operands[OperandW].def_factors
    IN  /\ contexts["gpu"].operands = {OperandA, OperandW, OperandC}
        /\ contexts["gpu"].external_operands =
             {OperandA} \cup (IF w = {"gpu"} THEN {} ELSE {OperandW})
        /\ contexts["cpu"].operands =
             {OperandC, OperandD} \cup (IF w = {"cpu"} THEN {OperandW} ELSE {})
        /\ OperandC \in contexts["cpu"].external_operands
        /\ migrant_done =>
             regs["cpu"].migrant[OperandC] =
               IF "gpu" \in portable_backends THEN NativeTensor("gpu", OperandC)
               ELSE NullTensor
        /\ DeallocPlanned => order = <<OpConv, OpRelu>>

C33_Witness ==
  /\ TwoBackendScenario
  /\ DeallocPlanned
  /\ operands[OperandW].def_factors = {BUILTIN}
  /\ OperandW \in contexts["gpu"].external_operands
  /\ regs["cpu"].migrant[OperandC] = NativeTensor("gpu", OperandC)
  /\ order = <<OpConv, OpRelu>>

\* the graph is that of the single-backend scenario In(A) -> Add(A,A) -> Out(B)
SingleBackendScenario ==
  /\ Ops = {0}
  /\ operations[0] = [backend |-> "cpu", inputs |-> <<0, 0>>, outputs |-> <<1>>]
  /\ graph_inputs = <<0>>
  /\ graph_outputs = <<1>>

\* ------------------------------------------------------------------------
\* C34 (as stated) A tensor is a member of a dealloc list only if it is
\*     dynamic: in the two-backend scenario dealloc_list_map[Relu] equals [C]
\*     only if C is dynamic, and in the single-backend scenario
\*     dealloc_list_map[Add] contains tensor(A) iff A is dynamic and not a
\*     graph input.
\* ------------------------------------------------------------------------
C34_Original ==
  (DeallocPlanned /\ pc = "done") =>
    /\ TwoBackendScenario =>
         (dealloc_list_map[OpRelu] = <<TensorRegsGetITensor(regs, OperandC)>> =>
            OperandC \in dynamic)
    /\ SingleBackendScenario =>
         (Contains(dealloc_list_map[0], TensorRegsGetITensor(regs, 0)) <=>
            (0 \in dynamic /\ ~Contains(graph_inputs, 0)))

\* C34 (amended) Membership in a dealloc list does not depend on is_dynamic:
\*     in the two-backend scenario dealloc_list_map[Relu] equals [C] whether
\*     or not C is dynamic, and the buffer of C is released by Relu's
\*     DeallocFunction iff C is dynamic when it runs; in the single-backend
\*     scenario dealloc_list_map[Add] is empty, A being a graph input.
C34_DeallocLists ==
  DeallocPlanned =>
    /\ TwoBackendScenario =>
         /\ dealloc_list_map[OpRelu] = <<TensorRegsGetITensor(regs, OperandC)>>
         /\ TensorRegsGetITensor(regs, OperandC) = NativeTensor("gpu", OperandC)
         /\ dealloc_list_map[OpConv] = <<>>
         /\ OperandC \in released => (OperandC \in dynamic /\ OpRelu \in Finished)
         /\ pc = "done" => (OperandC \in released <=> OperandC \in dynamic)
    /\ SingleBackendScenario =>
         /\ dealloc_list_map[0] = <<>>
         /\ released = {}

C34_Witness ==
  /\ TwoBackendScenario
  /\ DeallocPlanned
  /\ pc = "done"
  /\ dealloc_list_map[OpRelu] = <<NativeTensor("gpu", OperandC)>>
  /\ OperandC \notin dynamic
  /\ OperandC \notin released

\* the scan state when the walk reaches the k-th operation of the order
ScanBeforeOp(k) ==
  ScanOrder([uses_map |-> InitialUsesMap,
             dealloc_list_map |-> [o \in Ops |-> <<>>]], SubSeq(order, 1, k - 1))

\* uses_map[ind] where "assert(uses_map[ind] > 0)" is evaluated for the j-th
\* input of the k-th operation
CounterAtAssert(k, j) ==
  LET op_ind    == order[k]
      op_inputs == OpInputs(operations[op_ind])
  IN  ScanInputs(ScanBeforeOp(k), op_ind, SubSeq(op_inputs, 1, j - 1))
        .uses_map[op_inputs[j]]

\* ------------------------------------------------------------------------
\* C35 Use-counter balance: during the walk over the linearized order each
\*     operand's counter is strictly positive immediately before each of its
\*     decrements, and after the walk and the removal of the constants'
\*     extra pin every counter equals zero.
\* ------------------------------------------------------------------------
C35_UseCounterBalance ==
  DeallocPlanned =>
    /\ \A k \in DOMAIN order :
         \A j \in DOMAIN OpInputs(operations[order[k]]) : CounterAtAssert(k, j) > 0
    /\ \A ind \in OperandIdx : uses_map[ind] = 0

C35_Witness ==
  /\ DeallocPlanned
  /\ Len(order) = 3
  /\ \E ind \in OperandIdx :
       /\ Cardinality(Uses(ind)) = 2
       /\ \E k \in DOMAIN order : \E j \in DOMAIN OpInputs(operations[order[k]]) :
            OpInputs(operations[order[k]])[j] = ind /\ CounterAtAssert(k, j) = 2
       /\ \E k \in DOMAIN order : \E j \in DOMAIN OpInputs(operations[order[k]]) :
            OpInputs(operations[order[k]])[j] = ind /\ CounterAtAssert(k, j) = 1
  /\ \A ind \in OperandIdx : uses_map[ind] = 0

\* kernel generation is over: the code map has been released to the executor
KernelsGenerated == pc \in {"newExecutor", "run", "done", "unwinding", "aborted"}

\* ------------------------------------------------------------------------
\* C36 Code-map totality: after kernel generation code_map has exactly one
\*     function sequence for every operation of the whole graph and no entry
\*     for any other index (every backend's genKernels returning one pair per
\*     operation of its partial graph).
\* ------------------------------------------------------------------------
C36_CodeMapTotality ==
  KernelsGenerated =>
    /\ DOMAIN code_map = Ops
    /\ \A o \in Ops :
         /\ code_map[o].op_ind = o
         /\ code_map[o].backend = operations[o].backend
         /\ Cardinality({b \in DOMAIN contexts :
                           Contains(contexts[b].op_order, o)}) = 1

C36_Witness ==
  /\ KernelsGenerated
  /\ Cardinality(Ops) = 3
  /\ Cardinality({operations[o].backend : o \in Ops}) = 2
  /\ DOMAIN code_map = Ops
  /\ \E b \in DOMAIN contexts : contexts[b].op_order = <<>>

\* ------------------------------------------------------------------------
\* C37 When a Dataflow executor is built with he_profiling_mode set, the
\*     ExecTime table handed to the ProfileObserver is built from the full
\*     set of backends that have a backend context (one key per backend),
\*     although the contexts have already been handed over to the executor.
\* ------------------------------------------------------------------------
C37_ExecTimeBackends ==
  (exec = "DataflowExecutor" /\ he_profiling_mode) =>
    /\ Contains(observers, "ProfileObserver")
    /\ exec_time.made
    /\ exec_time.backends = DOMAIN contexts

\* the positions of the calls made for operation o, in call order
CallsFor(o) == SetToSeq({k \in DOMAIN calls : calls[k].op = o})

\* ------------------------------------------------------------------------
\* C38 In a Linear executor built with he_profiling_mode set, for every
\*     operation with a non-empty dealloc list the run order inside its
\*     function sequence is: the backend's kernels, then the backend sync(),
\*     then the DeallocFunction; no buffer is released before the backend
\*     barrier has completed.
\* ------------------------------------------------------------------------
C38_SyncBeforeDealloc ==
  (executor = "Linear" /\ he_profiling_mode) =>
    /\ \A o \in DOMAIN code_map :
         dealloc_list_map[o] # <<>> =>
           /\ code_map[o].fn_seq = <<SyncFunction(operations[o].backend),
                                     DeallocFunction(dealloc_list_map[o])>>
           /\ o \in Finished =>
                LET at == CallsFor(o)
                IN  /\ Len(at) = 3
                    /\ at[2] = at[1] + 1 /\ at[3] = at[2] + 1
                    /\ calls[at[1]].fn = "kernel"
                    /\ calls[at[2]] = [fn |-> "sync", op |-> o,
                                       backend |-> operations[o].backend]
                    /\ calls[at[3]].fn = "dealloc"
    /\ \A ind \in released :
         \E k \in DOMAIN calls :
           /\ calls[k].fn = "dealloc"
           /\ ind \in DeallocTensorsOf(code_map[calls[k].op].fn_seq)
           /\ k > 2
           /\ calls[k - 1].fn = "sync" /\ calls[k - 1].op = calls[k].op
           /\ calls[k - 2].fn = "kernel" /\ calls[k - 2].op = calls[k].op

C38_Witness ==
  /\ executor = "Linear"
  /\ he_profiling_mode
  /\ released # {}
  /\ \E o \in Finished :
       /\ dealloc_list_map[o] # <<>>
       /\ operations[o].backend = "gpu"
       /\ \E k \in DOMAIN calls : calls[k].fn = "dealloc" /\ calls[k].op = o
  /\ \E o \in Finished : dealloc_list_map[o] = <<>>

\* the backends to which an operand or an operation of the whole graph is
\* assigned
AssignedBackends ==
  UNION {operands[ind].def_factors : ind \in OperandIdx}
    \cup {operations[o].backend : o \in Ops}

\* ------------------------------------------------------------------------
\* C39 createBackendContexts creates exactly one partial graph and one
\*     backend context for every backend known to the backend manager,
\*     including backends to which no operand or operation is assigned
\*     (their partial graph and op_order are empty), and each partial graph
\*     has the whole graph's layout.
\* ------------------------------------------------------------------------
C39_ContextPerBackend ==
  (Partitioned \/ pc \notin {"start", "createBackendContexts", "failed"}) =>
    /\ DOMAIN contexts = backend_manager
    /\ \A b \in backend_manager :
         /\ contexts[b].layout = layout
         /\ b \notin AssignedBackends =>
              /\ contexts[b].operands = {}
              /\ contexts[b].operations = {}
              /\ contexts[b].external_operands = {}
              /\ contexts[b].inputs = <<>>
              /\ contexts[b].outputs = <<>>
              /\ contexts[b].op_order = <<>>

C39_Witness ==
  /\ Partitioned
  /\ layout = "NCHW"
  /\ Cardinality(backend_manager) = 3
  /\ backend_manager \ AssignedBackends # {}
  /\ \E b \in backend_manager : contexts[b].operations # {} /\ contexts[b].layout = "NCHW"

\* ------------------------------------------------------------------------
\* C40 Partition ConnectNode: after a node has been cloned and connected, the
\*     clone has the same arity as the original and, for every input
\*     position i, the clone's i-th argument is the registered clone of the
\*     original's i-th input; if some input of the original has no
\*     registered clone, connecting throws instead of leaving the clone
\*     partly connected to a null input.
\* ------------------------------------------------------------------------
C40_ConnectNode ==
  /\ connect_pc \in {"cloned", "connected", "thrown"} =>
       cloned.kind = node.kind /\ Len(cloned.args) = Len(node.args)
  /\ connect_pc = "connected" =>
       \A i \in DOMAIN node.args :
         /\ node.args[i] \in DOMAIN clonecontext
         /\ cloned.args[i] = clonecontext[node.args[i]]
         /\ cloned.args[i] # NullNode
  /\ connect_pc \in {"connected", "thrown"} =>
       (connect_pc = "thrown" <=>
          \E i \in DOMAIN node.args : node.args[i] \notin DOMAIN clonecontext)

C40_Witness ==
  /\ connect_pc = "connected"
  /\ node.kind = "CircleIf"
  /\ Len(cloned.args) = 3
  /\ cloned.args[2] # cloned.args[3]
  /\ \E i \in DOMAIN node.args : cloned.args[i] # node.args[i]
====
